---- MODULE Spec2Model ----
(***************************************************************************)
(* A model of the Lox implementations of ntBre/lox.                        *)
(*                                                                         *)
(* jlox (tree walker): the driver Lox (lib.rs), the Environment stack of   *)
(* frames of shared slots (environment.rs), the evaluator                  *)
(* (interpreter.rs, interpreter/function.rs) as a small-step machine whose *)
(* control stack is the Rust call stack, and the Resolver (resolver.rs) as *)
(* recursive operators over the syntax tree.                               *)
(***************************************************************************)
EXTENDS Integers, Sequences, FiniteSets, TLC

VARIABLES
    mode,               \* "file" (Lox::run_file) or "prompt" (Lox::run_prompt)
    session,            \* the inputs still to be read: a file, or stdin lines
    input,              \* the source handed to the running Lox::run
    dpc,                \* the driver's position
    phases,             \* static phases that have finished on `input`
    statements,         \* the statements the interpret loop iterates over
    had_error,          \* Lox.had_error
    had_runtime_error,  \* Lox.had_runtime_error
    exit_code,          \* the process exit status, -1 while running
    globals,            \* Lox.environment / Interpreter.globals
    locals,             \* Interpreter.locals: expression -> depth
    scopes,             \* Resolver.scopes
    current_function,   \* Resolver.current_function
    to_resolve,         \* the statements Resolver::resolve has not reached
    resolved,           \* every call of Interpreter::resolve: <<node, depth>>
    heap,               \* the Rc<RefCell<Value>> slots, by allocation order
    kont,               \* the evaluator's call stack, top first
    ret,                \* the Ok(..) value the last finished call returned
    status,             \* "run", "err" (an Err is propagating) or "panic"
    sig,                \* the propagating RuntimeError
    out,                \* lines printed on stdout
    errout,             \* lines printed on stderr
    lox_scanner,        \* the Scanner of Lox::run (scanner.rs)
    lox_parser,         \* the Parser of Lox::run (parser.rs)
    overflow_checks,    \* clox: built with overflow checks (debug) or not
    vm_session,         \* clox: the sources main still hands to Vm::interpret
    source,             \* clox: the source of the running Vm::interpret
    scanner,            \* clox: the Scanner of the running compile
    parser,             \* clox: Vm.parser
    chunk,              \* clox: Vm.chunk
    ckont,              \* clox: the compiler's call stack, top first
    ip,                 \* clox: Vm.ip
    stack,              \* clox: Vm.stack
    stack_top,          \* clox: Vm.stack_top
    vpc,                \* clox: the position of Vm::interpret
    result,             \* clox: what the last Vm::interpret returned
    vout,               \* clox: lines printed on stdout
    verr                \* clox: text printed on stderr, call by call

vars == <<mode, session, input, dpc, phases, statements, had_error,
          had_runtime_error, exit_code, globals, locals, scopes,
          current_function, to_resolve, resolved, heap, kont, ret, status,
          sig, out, errout, lox_scanner, lox_parser, overflow_checks,
          vm_session, source, scanner, parser, chunk, ckont, ip, stack,
          stack_top, vpc, result, vout, verr>>

resolverVars == <<locals, scopes, current_function, to_resolve, resolved>>

cloxVars == <<overflow_checks, vm_session, source, scanner, parser, chunk,
              ckont, ip, stack, stack_top, vpc, result, vout, verr>>

jloxVars == <<mode, session, input, dpc, phases, statements, had_error,
              had_runtime_error, exit_code, globals, locals, scopes,
              current_function, to_resolve, resolved, heap, kont, ret, status,
              sig, out, errout, lox_scanner, lox_parser>>

frontVars == <<lox_scanner, lox_parser>>

-----------------------------------------------------------------------------
(* Bounds of the model. *)

\* stdin lines a prompt session reads before end of input
MaxLines == 3
\* the readings of the wall clock are 1 .. MaxClock
MaxClock == 2

\* the sources given to the jlox Scanner have at most MaxChars chars
MaxChars == 3

\* the calls made on the scopes of the Resolver are at most MaxCalls
MaxCalls == 4

\* the token lists given to the jlox Parser have at most MaxTokens tokens
\* before Eof, the programs apart
MaxTokens == 3

-----------------------------------------------------------------------------
(* Tokens and syntax trees: token.rs, expr.rs, stmt.rs. *)

\* Token::new; the literal payload of an identifier or operator token is
\* always Literal::Null and is left out.
Token(typ, lexeme, line) == [typ |-> typ, lexeme |-> lexeme, line |-> line]

Ident(lexeme, line) == Token("Identifier", lexeme, line)

\* Literal
LitNumber(n) == [lit |-> "Number", n |-> n]
LitString(s) == [lit |-> "String", s |-> s]
LitTrue == [lit |-> "True"]
LitFalse == [lit |-> "False"]
LitNull == [lit |-> "Null"]

\* Expr.  `at` is the place of a Variable or Assign occurrence in the source
\* text.  The Rust nodes do not carry it: it names the occurrence in the
\* properties and is stripped by ExprKey before a node is used as a map key.
ExprNull == [t |-> "Null"]
Literal(l) == [t |-> "Literal", l |-> l]
Variable(name, at) == [t |-> "Variable", name |-> name, at |-> at]
Assign(name, value, at) ==
    [t |-> "Assign", name |-> name, value |-> value, at |-> at]
Binary(left, operator, right) ==
    [t |-> "Binary", left |-> left, operator |-> operator, right |-> right]
Grouping(expression) == [t |-> "Grouping", expression |-> expression]
Logical(left, operator, right) ==
    [t |-> "Logical", left |-> left, operator |-> operator, right |-> right]
Unary(operator, right) ==
    [t |-> "Unary", operator |-> operator, right |-> right]
Call(callee, paren, arguments) ==
    [t |-> "Call", callee |-> callee, paren |-> paren,
     arguments |-> arguments]

\* Stmt
StmtNull == [t |-> "Null"]
Block(stmts) == [t |-> "Block", statements |-> stmts]
Expression(e) == [t |-> "Expression", expression |-> e]
Function(name, params, body) ==
    [t |-> "Function", name |-> name, params |-> params, body |-> body]
If(condition, then_branch, else_branch) ==
    [t |-> "If", condition |-> condition, then_branch |-> then_branch,
     else_branch |-> else_branch]
StmtPrint(e) == [t |-> "Print", expression |-> e]
Return(keyword, value) ==
    [t |-> "Return", keyword |-> keyword, value |-> value]
Var(name, initializer) ==
    [t |-> "Var", name |-> name, initializer |-> initializer]
While(condition, body) ==
    [t |-> "While", condition |-> condition, body |-> body]

is_null(x) == x.t = "Null"

-----------------------------------------------------------------------------
(* Values: interpreter/value.rs, interpreter/function.rs, builtin.rs. *)

Nil == [k |-> "Nil"]
Boolean(b) == [k |-> "Boolean", b |-> b]
Number(n) == [k |-> "Number", n |-> n]
String(s) == [k |-> "String", s |-> s]

\* Function::new: the closure is an Environment held by value.
FunctionNew(declaration, closure) ==
    [k |-> "Function", name |-> declaration.name.lexeme,
     params |-> declaration.params, body |-> declaration.body,
     closure |-> closure]

\* The clock builtin of Lox::new: no parameters.
ClockBuiltin == [k |-> "Builtin", params |-> <<>>, fun |-> "clock"]

is_truthy(v) ==
    CASE v.k = "Nil" -> FALSE
      [] v.k = "Boolean" -> v.b
      [] OTHER -> TRUE

\* Callable::arity of Function and of Builtin
arity(v) == Len(v.params)

\* Decimal text of an integer, as Display of an integral f64 prints it.
DigitText(d) ==
    CASE d = 0 -> "0" [] d = 1 -> "1" [] d = 2 -> "2" [] d = 3 -> "3"
      [] d = 4 -> "4" [] d = 5 -> "5" [] d = 6 -> "6" [] d = 7 -> "7"
      [] d = 8 -> "8" [] OTHER -> "9"

RECURSIVE NatText(_)
NatText(n) ==
    IF n < 10 THEN DigitText(n) ELSE NatText(n \div 10) \o DigitText(n % 10)

IntText(n) == IF n < 0 THEN "-" \o NatText(0 - n) ELSE NatText(n)

\* impl Display for Value
Display(v) ==
    CASE v.k = "Nil" -> "nil"
      [] v.k = "Boolean" -> IF v.b THEN "true" ELSE "false"
      [] v.k = "Number" -> IntText(v.n)
      [] v.k = "String" -> v.s
      [] v.k = "Function" -> "<fn todo!>"
      [] OTHER -> "<native fn>"

-----------------------------------------------------------------------------
(* Environment: environment.rs.  An environment is a sequence of frames,   *)
(* the global frame first; a frame maps a name to the slot (an index of    *)
(* the heap) that holds its value.  Cloning an Environment copies the      *)
(* frames and shares the slots.                                            *)

EmptyFrame == [x \in {} |-> 0]

\* Environment::new
EnvironmentNew == <<EmptyFrame>>

\* Environment::push
push(env) == Append(env, EmptyFrame)

\* Environment::pop (Vec::pop: nothing happens on an empty stack)
pop(env) == IF env = <<>> THEN env ELSE SubSeq(env, 1, Len(env) - 1)

\* Environment::ancestor, as an index of a 1-based sequence
ancestor(env, distance) == Len(env) - distance

\* The frame Environment::get and Environment::assign stop at: the one nearest
\* the top that holds the name, 0 when none does.
RECURSIVE FindFrame(_, _, _)
FindFrame(env, lexeme, i) ==
    IF i = 0 THEN 0
    ELSE IF lexeme \in DOMAIN env[i] THEN i
    ELSE FindFrame(env, lexeme, i - 1)

UndefinedVariable(name) ==
    [kind |-> "Error",
     message |-> "Undefined variable '" \o name.lexeme \o "'.",
     line |-> name.line]

\* Environment::get: the slot, or the error
get(env, name) ==
    LET i == FindFrame(env, name.lexeme, Len(env))
    IN  IF i # 0
        THEN [ok |-> TRUE, slot |-> env[i][name.lexeme]]
        ELSE [ok |-> FALSE, err |-> UndefinedVariable(name)]

\* Environment::get_at
get_at(env, distance, name) ==
    LET i == ancestor(env, distance)
    IN  IF name.lexeme \in DOMAIN env[i]
        THEN [ok |-> TRUE, slot |-> env[i][name.lexeme]]
        ELSE [ok |-> FALSE, err |-> UndefinedVariable(name)]

\* Environment::define: a fresh slot in the top frame.  The result is the
\* environment and the heap after the call.
define(env, h, lexeme, value) ==
    LET i == Len(env)
        slot == Len(h) + 1
    IN  [env |-> [env EXCEPT ![i] = (lexeme :> slot) @@ env[i]],
         heap |-> Append(h, value)]

\* An assign that stores into a copy of the slot found: the frames keep the
\* slot they had, which keeps its value.
assign_copy(env, h, name, value) ==
    LET i == FindFrame(env, name.lexeme, Len(env))
    IN  IF i # 0
        THEN [ok |-> TRUE, slot |-> Len(h) + 1, heap |-> Append(h, value)]
        ELSE [ok |-> FALSE, err |-> UndefinedVariable(name), heap |-> h]

\* Environment::assign: the value is stored in the slot found, no frame
\* changes.  The result is the heap after the call and the slot returned.
assign(env, h, name, value) ==
    LET i == FindFrame(env, name.lexeme, Len(env))
    IN  IF i # 0
        THEN [ok |-> TRUE, slot |-> env[i][name.lexeme],
              heap |-> [h EXCEPT ![env[i][name.lexeme]] = value]]
        ELSE [ok |-> FALSE, err |-> UndefinedVariable(name), heap |-> h]

\* Environment::assign_at: unwraps the slot of the frame addressed
assign_at(env, h, distance, name, value) ==
    LET i == ancestor(env, distance)
    IN  [ok |-> TRUE, slot |-> env[i][name.lexeme],
         heap |-> [h EXCEPT ![env[i][name.lexeme]] = value]]

-----------------------------------------------------------------------------
(* The store the evaluator works on: the driver's environment g and the    *)
(* heap h.  A statement runs against an environment named by r: 0 is the   *)
(* driver's environment, r > 0 the closure of the Function value in slot r *)
(* (Function::call runs the body against self.closure, in place).          *)

EnvOf(g, h, r) == IF r = 0 THEN g ELSE h[r].closure

PutEnv(g, h, r, env) ==
    [g |-> IF r = 0 THEN env ELSE g,
     h |-> IF r = 0 THEN h ELSE [h EXCEPT ![r].closure = env]]

\* env.push() on the environment r
StPush(g, h, r) == PutEnv(g, h, r, push(EnvOf(g, h, r)))

\* env.pop() on the environment r
StPop(g, h, r) == PutEnv(g, h, r, pop(EnvOf(g, h, r)))

\* env.define(name, value) on the environment r
StDefine(g, h, r, lexeme, value) ==
    LET d == define(EnvOf(g, h, r), h, lexeme, value)
    IN  PutEnv(g, d.heap, r, d.env)

\* What evaluate returns in Ok: an Rc that is a slot of the heap (slot # 0),
\* or a fresh Rc no frame holds (slot = 0, with its value).
InSlot(slot) == [slot |-> slot, v |-> Nil]
Fresh(v) == [slot |-> 0, v |-> v]

\* rc.borrow() of such a result
ValueOf(h, r) == IF r.slot = 0 THEN r.v ELSE h[r.slot]

\* RuntimeError::new and RuntimeError::Return
RuntimeErrorNew(message, token) ==
    [kind |-> "Error", message |-> message, line |-> token.line]
ReturnSignal(r) == [kind |-> "Return", value |-> r]
NoSignal == [kind |-> "None"]

-----------------------------------------------------------------------------
(* The call stack.  Each entry is a call of execute or evaluate that is    *)
(* about to start, or the rest of one that waits for a callee to return.   *)

Exec(s, r) == [k |-> "execute", s |-> s, env |-> r]
Eval(e, r) == [k |-> "evaluate", e |-> e, env |-> r]
\* the return of a call of execute that found `frames` frames when it began
ExecuteEnd(g, h, r) ==
    [k |-> "execute_end", env |-> r, frames |-> Len(EnvOf(g, h, r))]

Top == kont[1]
Rest == Tail(kont)
Running == status = "run" /\ kont # <<>>
At(k) == Running /\ Top.k = k
AtExec(t) == At("execute") /\ Top.s.t = t
AtEval(t) == At("evaluate") /\ Top.e.t = t


driverVars == <<mode, session, input, dpc, phases, statements, had_error,
                had_runtime_error, exit_code, resolverVars, cloxVars, frontVars>>

-----------------------------------------------------------------------------
(* Interpreter::execute, one action per arm and per point where an arm     *)
(* resumes after a nested call.                                            *)

\* Stmt::Expression
ExecExpression ==
    /\ AtExec("Expression")
    /\ kont' = <<Eval(Top.s.expression, Top.env),
                 ExecuteEnd(globals, heap, Top.env)>> \o Rest
    /\ UNCHANGED <<driverVars, globals, heap, ret, status, sig, out, errout>>

\* Stmt::Print: evaluate first
ExecPrint ==
    /\ AtExec("Print")
    /\ kont' = <<Eval(Top.s.expression, Top.env), [k |-> "print"],
                 ExecuteEnd(globals, heap, Top.env)>> \o Rest
    /\ UNCHANGED <<driverVars, globals, heap, ret, status, sig, out, errout>>

\* Stmt::Print: println!("{}", value.borrow())
PrintValue ==
    /\ At("print")
    /\ out' = Append(out, Display(ValueOf(heap, ret)))
    /\ kont' = Rest
    /\ UNCHANGED <<driverVars, globals, heap, ret, status, sig, errout>>

\* Stmt::Var: without an initializer Nil is defined at once
ExecVar ==
    /\ AtExec("Var")
    /\ IF is_null(Top.s.initializer)
       THEN LET st == StDefine(globals, heap, Top.env, Top.s.name.lexeme, Nil)
            IN  /\ globals' = st.g
                /\ heap' = st.h
                /\ ret' = Fresh(Nil)
                /\ kont' = <<ExecuteEnd(globals, heap, Top.env)>> \o Rest
       ELSE /\ kont' = <<Eval(Top.s.initializer, Top.env),
                         [k |-> "define", name |-> Top.s.name,
                          env |-> Top.env],
                         ExecuteEnd(globals, heap, Top.env)>> \o Rest
            /\ UNCHANGED <<globals, heap, ret,
                   cloxVars, frontVars>>
    /\ UNCHANGED <<driverVars, status, sig, out, errout>>

\* Stmt::Var: define(name, value.borrow().clone())
DefineVar ==
    /\ At("define")
    /\ LET st == StDefine(globals, heap, Top.env, Top.name.lexeme,
                          ValueOf(heap, ret))
       IN  /\ globals' = st.g
           /\ heap' = st.h
    /\ ret' = Fresh(Nil)
    /\ kont' = Rest
    /\ UNCHANGED <<driverVars, status, sig, out, errout>>

\* Stmt::Block: push a frame, then the statements in turn
ExecBlock ==
    /\ AtExec("Block")
    /\ LET st == StPush(globals, heap, Top.env)
       IN  /\ globals' = st.g
           /\ heap' = st.h
    /\ kont' = <<[k |-> "block", statements |-> Top.s.statements,
                  env |-> Top.env],
                 ExecuteEnd(globals, heap, Top.env)>> \o Rest
    /\ UNCHANGED <<driverVars, ret, status, sig, out, errout>>

\* Stmt::Block: the next statement of the loop
BlockNext ==
    /\ At("block")
    /\ Top.statements # <<>>
    /\ kont' = <<Exec(Head(Top.statements), Top.env),
                 [Top EXCEPT !.statements = Tail(@)]>> \o Rest
    /\ UNCHANGED <<driverVars, globals, heap, ret, status, sig, out, errout>>

\* Stmt::Block: the loop is over, pop and return Ok(Nil)
BlockEnd ==
    /\ At("block")
    /\ Top.statements = <<>>
    /\ LET st == StPop(globals, heap, Top.env)
       IN  /\ globals' = st.g
           /\ heap' = st.h
    /\ ret' = Fresh(Nil)
    /\ kont' = Rest
    /\ UNCHANGED <<driverVars, status, sig, out, errout>>

\* A Block that returns the Err of a statement with its frame still pushed
BlockErrKeepsFrame ==
    /\ status = "err"
    /\ kont # <<>>
    /\ Top.k = "block"
    /\ kont' = Rest
    /\ UNCHANGED <<driverVars, globals, heap, ret, status, sig, out, errout>>

\* Stmt::Block: a statement returned Err, pop and return it
BlockErr ==
    /\ status = "err"
    /\ kont # <<>>
    /\ Top.k = "block"
    /\ LET st == StPop(globals, heap, Top.env)
       IN  /\ globals' = st.g
           /\ heap' = st.h
    /\ kont' = Rest
    /\ UNCHANGED <<driverVars, ret, status, sig, out, errout>>

\* Stmt::If: the condition first
ExecIf ==
    /\ AtExec("If")
    /\ kont' = <<Eval(Top.s.condition, Top.env),
                 [k |-> "if", s |-> Top.s, env |-> Top.env],
                 ExecuteEnd(globals, heap, Top.env)>> \o Rest
    /\ UNCHANGED <<driverVars, globals, heap, ret, status, sig, out, errout>>

\* Stmt::If: the branch
IfBranch ==
    /\ At("if")
    /\ IF is_truthy(ValueOf(heap, ret))
       THEN /\ kont' = <<Exec(Top.s.then_branch, Top.env)>> \o Rest
            /\ ret' = ret
       ELSE IF ~is_null(Top.s.else_branch)
       THEN /\ kont' = <<Exec(Top.s.else_branch, Top.env)>> \o Rest
            /\ ret' = ret
       ELSE /\ kont' = Rest
            /\ ret' = Fresh(Nil)
    /\ UNCHANGED <<driverVars, globals, heap, status, sig, out, errout>>

\* Stmt::While: the condition of the first iteration
ExecWhile ==
    /\ AtExec("While")
    /\ kont' = <<Eval(Top.s.condition, Top.env),
                 [k |-> "while", s |-> Top.s, env |-> Top.env],
                 ExecuteEnd(globals, heap, Top.env)>> \o Rest
    /\ UNCHANGED <<driverVars, globals, heap, ret, status, sig, out, errout>>

\* Stmt::While: the body and the condition again, or the end of the loop
WhileTest ==
    /\ At("while")
    /\ IF is_truthy(ValueOf(heap, ret))
       THEN /\ kont' = <<Exec(Top.s.body, Top.env),
                         Eval(Top.s.condition, Top.env), Top>> \o Rest
            /\ ret' = ret
       ELSE /\ kont' = Rest
            /\ ret' = Fresh(Nil)
    /\ UNCHANGED <<driverVars, globals, heap, status, sig, out, errout>>

\* The environment a Function statement captures: self.globals.clone()
CaptureClosure(env) == env

\* Stmt::Function: capture a clone of the environment, then define the name
ExecFunction ==
    /\ AtExec("Function")
    /\ LET function ==
               FunctionNew(Top.s,
                           CaptureClosure(EnvOf(globals, heap, Top.env)))
           st == StDefine(globals, heap, Top.env, Top.s.name.lexeme,
                          function)
       IN  /\ globals' = st.g
           /\ heap' = st.h
    /\ ret' = Fresh(Nil)
    /\ kont' = <<ExecuteEnd(globals, heap, Top.env)>> \o Rest
    /\ UNCHANGED <<driverVars, status, sig, out, errout>>

\* Stmt::Return: without a value Err(Return(Nil)) at once
ExecReturn ==
    /\ AtExec("Return")
    /\ IF is_null(Top.s.value)
       THEN /\ status' = "err"
            /\ sig' = ReturnSignal(Fresh(Nil))
            /\ kont' = <<ExecuteEnd(globals, heap, Top.env)>> \o Rest
       ELSE /\ kont' = <<Eval(Top.s.value, Top.env), [k |-> "return"],
                         ExecuteEnd(globals, heap, Top.env)>> \o Rest
            /\ UNCHANGED <<status, sig,
                   cloxVars, frontVars>>
    /\ UNCHANGED <<driverVars, globals, heap, ret, out, errout>>

\* Stmt::Return: Err(RuntimeError::Return(ret))
DoReturn ==
    /\ At("return")
    /\ status' = "err"
    /\ sig' = ReturnSignal(ret)
    /\ kont' = Rest
    /\ UNCHANGED <<driverVars, globals, heap, ret, out, errout>>

\* execute returns Ok to its caller
ExecuteReturn ==
    /\ At("execute_end")
    /\ kont' = Rest
    /\ UNCHANGED <<driverVars, globals, heap, ret, status, sig, out, errout>>

\* An Err leaves a call that neither pops a frame nor catches it (the ?
\* operator, or a plain return of the Err).
Propagate ==
    /\ status = "err"
    /\ kont # <<>>
    /\ Top.k \notin {"block", "call_exit"}
    /\ kont' = Rest
    /\ UNCHANGED <<driverVars, globals, heap, ret, status, sig, out, errout>>


-----------------------------------------------------------------------------
(* Interpreter::evaluate. *)

\* Expr::Literal
LiteralValue(l) ==
    CASE l.lit = "String" -> String(l.s)
      [] l.lit = "Number" -> Number(l.n)
      [] l.lit = "True" -> Boolean(TRUE)
      [] l.lit = "False" -> Boolean(FALSE)
      [] OTHER -> Nil

\* The derived PartialEq of Value, through Rc and RefCell: functions compare
\* by name, parameters, body and closure, the closure slot by slot; two
\* builtins are never equal.
RECURSIVE ValueEq(_, _, _)
EnvironmentEq(h, e1, e2) ==
    /\ Len(e1) = Len(e2)
    /\ \A i \in 1 .. Len(e1) :
          /\ DOMAIN e1[i] = DOMAIN e2[i]
          /\ \A x \in DOMAIN e1[i] : ValueEq(h, h[e1[i][x]], h[e2[i][x]])

ValueEq(h, a, b) ==
    /\ a.k = b.k
    /\ CASE a.k = "Nil" -> TRUE
         [] a.k = "Boolean" -> a.b = b.b
         [] a.k = "Number" -> a.n = b.n
         [] a.k = "String" -> a.s = b.s
         [] a.k = "Function" ->
                /\ a.name = b.name
                /\ a.params = b.params
                /\ a.body = b.body
                /\ EnvironmentEq(h, a.closure, b.closure)
         [] OTHER -> FALSE

OperandsMustBeNumbers(operator) ==
    [ok |-> FALSE,
     err |-> RuntimeErrorNew("Operands must be numbers.", operator)]

\* with_numbers! and the arithmetic or comparison that follows it
NumberOp(operator, a, b) ==
    IF a.k # "Number" \/ b.k # "Number"
    THEN OperandsMustBeNumbers(operator)
    ELSE [ok |-> TRUE,
          v |-> CASE operator.typ = "Minus" -> Number(a.n - b.n)
                  [] operator.typ = "Star" -> Number(a.n * b.n)
                  [] operator.typ = "Greater" -> Boolean(a.n > b.n)
                  [] operator.typ = "GreaterEqual" -> Boolean(a.n >= b.n)
                  [] operator.typ = "Less" -> Boolean(a.n < b.n)
                  [] OTHER -> Boolean(a.n <= b.n)]

\* Expr::Binary once both operands are values.  Numbers are the integral
\* f64 values; Slash, whose results are not all integral, is not modelled.
BinaryResult(h, operator, a, b) ==
    CASE operator.typ = "Plus" ->
            IF a.k = "Number" /\ b.k = "Number"
            THEN [ok |-> TRUE, v |-> Number(a.n + b.n)]
            ELSE IF a.k = "String" /\ b.k = "String"
            THEN [ok |-> TRUE, v |-> String(a.s \o b.s)]
            ELSE [ok |-> FALSE,
                  err |-> RuntimeErrorNew(
                      "Operands must be two numbers or two strings.",
                      operator)]
      [] operator.typ = "BangEqual" ->
            [ok |-> TRUE, v |-> Boolean(~ValueEq(h, a, b))]
      [] operator.typ = "EqualEqual" ->
            [ok |-> TRUE, v |-> Boolean(ValueEq(h, a, b))]
      [] OTHER -> NumberOp(operator, a, b)

\* Expr::Unary once the operand is a value
UnaryResult(operator, a) ==
    IF operator.typ = "Minus"
    THEN IF a.k = "Number"
         THEN [ok |-> TRUE, v |-> Number(0 - a.n)]
         ELSE [ok |-> FALSE,
               err |-> RuntimeErrorNew("Operand must be a number.", operator)]
    ELSE [ok |-> TRUE, v |-> Boolean(~is_truthy(a))]

\* Expr::Literal
EvalLiteral ==
    /\ AtEval("Literal")
    /\ ret' = Fresh(LiteralValue(Top.e.l))
    /\ kont' = Rest
    /\ UNCHANGED <<driverVars, globals, heap, status, sig, out, errout>>

\* The lookup of Expr::Variable: self.globals.get(name)
LookupVariable(env, e) == get(env, e.name)

\* Expr::Variable
EvalVariable ==
    /\ AtEval("Variable")
    /\ LET r == LookupVariable(EnvOf(globals, heap, Top.env), Top.e)
       IN  IF r.ok
           THEN /\ ret' = InSlot(r.slot)
                /\ UNCHANGED <<status, sig,
                   cloxVars, frontVars>>
           ELSE /\ status' = "err"
                /\ sig' = r.err
                /\ ret' = ret
    /\ kont' = Rest
    /\ UNCHANGED <<driverVars, globals, heap, out, errout>>

\* Expr::Assign: the value first
EvalAssign ==
    /\ AtEval("Assign")
    /\ kont' = <<Eval(Top.e.value, Top.env),
                 [k |-> "assign", e |-> Top.e, env |-> Top.env]>> \o Rest
    /\ UNCHANGED <<driverVars, globals, heap, ret, status, sig, out, errout>>

\* The store of Expr::Assign: self.globals.assign(name, v.clone())
StoreAssign(env, h, e, value) == assign(env, h, e.name, value)

\* Expr::Assign: `let v = value.borrow()` is alive while assign runs, so the
\* borrow_mut of assign panics when the value is the slot assigned to.
AssignValue ==
    /\ At("assign")
    /\ LET env == EnvOf(globals, heap, Top.env)
           a == StoreAssign(env, heap, Top.e, ValueOf(heap, ret))
       IN  IF a.ok /\ ret.slot = a.slot
           THEN /\ status' = "panic"
                /\ exit_code' = 101
                /\ UNCHANGED <<heap, ret, sig, kont,
                   cloxVars, frontVars>>
           ELSE IF a.ok
           THEN /\ heap' = a.heap
                /\ ret' = InSlot(a.slot)
                /\ kont' = Rest
                /\ UNCHANGED <<status, sig, exit_code,
                   cloxVars, frontVars>>
           ELSE /\ status' = "err"
                /\ sig' = a.err
                /\ heap' = a.heap
                /\ kont' = Rest
                /\ UNCHANGED <<ret, exit_code,
                   cloxVars, frontVars>>
    /\ UNCHANGED <<mode, session, input, dpc, phases, statements, had_error,
                   had_runtime_error, resolverVars,
                   cloxVars, frontVars, globals, out, errout>>

\* Expr::Binary: the left operand
EvalBinary ==
    /\ AtEval("Binary")
    /\ kont' = <<Eval(Top.e.left, Top.env),
                 [k |-> "binary_right", e |-> Top.e, env |-> Top.env]>>
               \o Rest
    /\ UNCHANGED <<driverVars, globals, heap, ret, status, sig, out, errout>>

\* Expr::Binary: the right operand
BinaryRight ==
    /\ At("binary_right")
    /\ kont' = <<Eval(Top.e.right, Top.env),
                 [k |-> "binary_op", operator |-> Top.e.operator,
                  left |-> ret]>> \o Rest
    /\ UNCHANGED <<driverVars, globals, heap, ret, status, sig, out, errout>>

\* Expr::Binary: the operator
BinaryOp ==
    /\ At("binary_op")
    /\ LET r == BinaryResult(heap, Top.operator, ValueOf(heap, Top.left),
                             ValueOf(heap, ret))
       IN  IF r.ok
           THEN /\ ret' = Fresh(r.v)
                /\ UNCHANGED <<status, sig,
                   cloxVars, frontVars>>
           ELSE /\ status' = "err"
                /\ sig' = r.err
                /\ ret' = ret
    /\ kont' = Rest
    /\ UNCHANGED <<driverVars, globals, heap, out, errout>>

\* Expr::Grouping
EvalGrouping ==
    /\ AtEval("Grouping")
    /\ kont' = <<Eval(Top.e.expression, Top.env)>> \o Rest
    /\ UNCHANGED <<driverVars, globals, heap, ret, status, sig, out, errout>>

\* Expr::Unary: the operand
EvalUnary ==
    /\ AtEval("Unary")
    /\ kont' = <<Eval(Top.e.right, Top.env),
                 [k |-> "unary_op", operator |-> Top.e.operator]>> \o Rest
    /\ UNCHANGED <<driverVars, globals, heap, ret, status, sig, out, errout>>

\* Expr::Unary: the operator
UnaryOp ==
    /\ At("unary_op")
    /\ LET r == UnaryResult(Top.operator, ValueOf(heap, ret))
       IN  IF r.ok
           THEN /\ ret' = Fresh(r.v)
                /\ UNCHANGED <<status, sig,
                   cloxVars, frontVars>>
           ELSE /\ status' = "err"
                /\ sig' = r.err
                /\ ret' = ret
    /\ kont' = Rest
    /\ UNCHANGED <<driverVars, globals, heap, out, errout>>

\* Expr::Logical: the left operand
EvalLogical ==
    /\ AtEval("Logical")
    /\ kont' = <<Eval(Top.e.left, Top.env),
                 [k |-> "logical", e |-> Top.e, env |-> Top.env]>> \o Rest
    /\ UNCHANGED <<driverVars, globals, heap, ret, status, sig, out, errout>>

\* A test that takes every operator for `or`
ShortCircuitsAsOr(operator, left) == is_truthy(left)

\* Whether Expr::Logical returns the left value without the right operand
ShortCircuits(operator, left) ==
    IF operator.typ = "Or" THEN is_truthy(left) ELSE ~is_truthy(left)

\* Expr::Logical: return left, or evaluate right
LogicalTest ==
    /\ At("logical")
    /\ IF ShortCircuits(Top.e.operator, ValueOf(heap, ret))
       THEN kont' = Rest
       ELSE kont' = <<Eval(Top.e.right, Top.env)>> \o Rest
    /\ UNCHANGED <<driverVars, globals, heap, ret, status, sig, out, errout>>


-----------------------------------------------------------------------------
(* Expr::Call, Interpreter::finish_callable, Function::call, Builtin::call *)

\* Expr::Call: the callee
EvalCall ==
    /\ AtEval("Call")
    /\ kont' = <<Eval(Top.e.callee, Top.env),
                 [k |-> "call_callee", e |-> Top.e, env |-> Top.env]>>
               \o Rest
    /\ UNCHANGED <<driverVars, globals, heap, ret, status, sig, out, errout>>

\* Expr::Call: the callee is evaluated, the first argument is next
CallCallee ==
    /\ At("call_callee")
    /\ LET task == [k |-> "call_args", e |-> Top.e, env |-> Top.env,
                    function |-> ret, args |-> <<>>]
       IN  IF Top.e.arguments = <<>>
           THEN kont' = <<task>> \o Rest
           ELSE kont' = <<Eval(Top.e.arguments[1], Top.env), task>> \o Rest
    /\ UNCHANGED <<driverVars, globals, heap, ret, status, sig, out, errout>>

\* Expr::Call: args.push(self.evaluate(arg)?)
CallArg ==
    /\ At("call_args")
    /\ Len(Top.args) < Len(Top.e.arguments)
    /\ LET task == [Top EXCEPT !.args = Append(@, ret)]
           n == Len(task.args)
       IN  IF n < Len(Top.e.arguments)
           THEN kont' = <<Eval(Top.e.arguments[n + 1], Top.env), task>>
                        \o Rest
           ELSE kont' = <<task>> \o Rest
    /\ UNCHANGED <<driverVars, globals, heap, ret, status, sig, out, errout>>

\* All arguments are evaluated and the match on the callee is next.
AtCallee ==
    /\ At("call_args")
    /\ Len(Top.args) = Len(Top.e.arguments)

Callee == ValueOf(heap, Top.function)

IsCallable(v) == v.k \in {"Function", "Builtin"}

\* Expr::Call: the callee is neither a function nor a builtin
CallNotCallable ==
    /\ AtCallee
    /\ ~IsCallable(Callee)
    /\ status' = "err"
    /\ sig' = RuntimeErrorNew("Can only call functions and classes.",
                              Top.e.paren)
    /\ kont' = Rest
    /\ UNCHANGED <<driverVars, globals, heap, ret, out, errout>>

\* A check that lets a call with too many arguments through
ArityTooFew(fun, args) == Len(args) < arity(fun)

\* The check of finish_callable: args.len() != fun.arity()
ArityMismatch(fun, args) == Len(args) # arity(fun)

\* finish_callable: the arity error
CallArityError ==
    /\ AtCallee
    /\ IsCallable(Callee)
    /\ ArityMismatch(Callee, Top.args)
    /\ status' = "err"
    /\ sig' = RuntimeErrorNew(
           "Expected " \o NatText(arity(Callee)) \o " arguments but got "
               \o NatText(Len(Top.args)) \o ".",
           Top.e.paren)
    /\ kont' = Rest
    /\ UNCHANGED <<driverVars, globals, heap, ret, out, errout>>

\* Function::call: closure.define(params[i].lexeme, arguments[i].clone())
\* for i from the given one on, on the closure of the function in slot f
RECURSIVE DefineParams(_, _, _, _, _, _)
DefineParams(g, h, f, params, args, i) ==
    IF i > Len(params) THEN [g |-> g, h |-> h]
    ELSE LET st == StDefine(g, h, f, params[i].lexeme, ValueOf(h, args[i]))
         IN  DefineParams(st.g, st.h, f, params, args, i + 1)

\* The frames Function::call adds to the closure before the body runs:
\* self.closure.push()
CallPush(g, h, f) == StPush(g, h, f)

\* Function::call up to the execution of the body: the closure of the
\* function value in the slot gets a frame with the parameters, and the body
\* runs against it as a block.  The task left for the return of the body
\* remembers how many frames the closure had when the call began.
CallFunction ==
    /\ AtCallee
    /\ Callee.k = "Function"
    /\ ~ArityMismatch(Callee, Top.args)
    /\ LET f == Top.function.slot
           st1 == CallPush(globals, heap, f)
           st2 == DefineParams(st1.g, st1.h, f, Callee.params, Top.args, 1)
       IN  /\ globals' = st2.g
           /\ heap' = st2.h
           /\ kont' = <<Exec(Block(Callee.body), f),
                        [k |-> "call_exit", function |-> f,
                         frames |-> Len(EnvOf(globals, heap, f))]>> \o Rest
    /\ UNCHANGED <<driverVars, ret, status, sig, out, errout>>

\* Builtin::call of clock: the time read is any of the clock's readings
CallBuiltin ==
    /\ AtCallee
    /\ Callee.k = "Builtin"
    /\ ~ArityMismatch(Callee, Top.args)
    /\ \E t \in 1 .. MaxClock : ret' = Fresh(Number(t))
    /\ kont' = Rest
    /\ UNCHANGED <<driverVars, globals, heap, status, sig, out, errout>>

\* Function::call after the body returned Ok: pop, and the Ok is returned
CallReturn ==
    /\ At("call_exit")
    /\ LET st == StPop(globals, heap, Top.function)
       IN  /\ globals' = st.g
           /\ heap' = st.h
    /\ kont' = Rest
    /\ UNCHANGED <<driverVars, ret, status, sig, out, errout>>

\* Function::call after the body returned Err: pop; a Return becomes the
\* Ok of the call, an Error goes on
CallCatch ==
    /\ status = "err"
    /\ kont # <<>>
    /\ Top.k = "call_exit"
    /\ LET st == StPop(globals, heap, Top.function)
       IN  /\ globals' = st.g
           /\ heap' = st.h
    /\ IF sig.kind = "Return"
       THEN /\ status' = "run"
            /\ ret' = sig.value
            /\ sig' = NoSignal
       ELSE UNCHANGED <<status, ret, sig,
                   cloxVars, frontVars>>
    /\ kont' = Rest
    /\ UNCHANGED <<driverVars, out, errout>>


-----------------------------------------------------------------------------
(* The driver: Lox of lib.rs.  An input is a source text reduced to what   *)
(* Lox::run sees of it: the errors its scan and its parse report and the   *)
(* statements the parser returns.                                          *)

Source(scan_errors, parse_errors, stmts) ==
    [scan_errors |-> scan_errors, parse_errors |-> parse_errors,
     stmts |-> stmts]

NoInput == Source(<<>>, <<>>, <<>>)

\* Lox::report: the text written to stderr
ReportText(e) ==
    "[line " \o NatText(e.line) \o "] Error" \o e.wher \o ": " \o e.message

RECURSIVE ReportAll(_, _)
ReportAll(log, errors) ==
    IF errors = <<>> THEN log
    ELSE ReportAll(Append(log, ReportText(Head(errors))), Tail(errors))

\* Lox::run_file: read the file and call run
RunFile ==
    /\ mode = "file"
    /\ dpc = "start"
    /\ input' = Head(session)
    /\ session' = Tail(session)
    /\ dpc' = "run"
    /\ phases' = {}
    /\ UNCHANGED <<mode, statements, had_error, had_runtime_error, exit_code,
                   globals, resolverVars,
                   cloxVars, frontVars, heap, kont, ret, status, sig, out, errout>>

\* Lox::run_prompt: a line is read and run
ReadLine ==
    /\ mode = "prompt"
    /\ dpc = "start"
    /\ session # <<>>
    /\ input' = Head(session)
    /\ session' = Tail(session)
    /\ dpc' = "run"
    /\ phases' = {}
    /\ UNCHANGED <<mode, statements, had_error, had_runtime_error, exit_code,
                   globals, resolverVars,
                   cloxVars, frontVars, heap, kont, ret, status, sig, out, errout>>

\* Lox::run_prompt: read_line returns 0 at the end of stdin
EndOfInput ==
    /\ mode = "prompt"
    /\ dpc = "start"
    /\ session = <<>>
    /\ dpc' = "exited"
    /\ exit_code' = 0
    /\ UNCHANGED <<mode, session, input, phases, statements, had_error,
                   had_runtime_error, globals, resolverVars,
                   cloxVars, frontVars, heap, kont, ret,
                   status, sig, out, errout>>

\* Lox::run: Scanner::scan_tokens, whose errors go to Lox::error
Scan ==
    /\ dpc = "run"
    /\ dpc' = "scanned"
    /\ phases' = phases \cup {"scan"}
    /\ had_error' = (had_error \/ input.scan_errors # <<>>)
    /\ errout' = ReportAll(errout, input.scan_errors)
    /\ UNCHANGED <<mode, session, input, statements, had_runtime_error,
                   exit_code, globals, resolverVars,
                   cloxVars, frontVars, heap, kont, ret, status, sig,
                   out>>

\* Lox::run: Parser::parse, whose errors go to Lox::parse_error
Parse ==
    /\ dpc = "scanned"
    /\ dpc' = "parsed"
    /\ phases' = phases \cup {"parse"}
    /\ statements' = input.stmts
    /\ had_error' = (had_error \/ input.parse_errors # <<>>)
    /\ errout' = ReportAll(errout, input.parse_errors)
    /\ UNCHANGED <<mode, session, input, had_runtime_error, exit_code,
                   globals, resolverVars,
                   cloxVars, frontVars, heap, kont, ret, status, sig, out>>

\* Lox::run: `if self.had_error { return; }`
SkipOnError ==
    /\ dpc = "parsed"
    /\ had_error
    /\ dpc' = "ran"
    /\ UNCHANGED <<mode, session, input, phases, statements, had_error,
                   had_runtime_error, exit_code, globals, resolverVars,
                   cloxVars, frontVars, heap, kont,
                   ret, status, sig, out, errout>>

\* Lox::run: self.interpret(statements) is the next call after the check
StartInterpret ==
    /\ dpc = "parsed"
    /\ ~had_error
    /\ dpc' = "interpret"
    /\ UNCHANGED <<mode, session, input, phases, statements, had_error,
                   had_runtime_error, exit_code, globals, resolverVars,
                   cloxVars, frontVars, heap, kont,
                   ret, status, sig, out, errout>>

\* Lox::interpret: the loop executes the next statement, or is over
InterpretNext ==
    /\ dpc = "interpret"
    /\ status = "run"
    /\ kont = <<>>
    /\ IF statements # <<>>
       THEN /\ kont' = <<Exec(Head(statements), 0)>>
            /\ statements' = Tail(statements)
            /\ dpc' = dpc
       ELSE /\ dpc' = "ran"
            /\ UNCHANGED <<kont, statements,
                   cloxVars, frontVars>>
    /\ UNCHANGED <<mode, session, input, phases, had_error,
                   had_runtime_error, exit_code, globals, resolverVars,
                   cloxVars, frontVars, heap, ret,
                   status, sig, out, errout>>

\* Lox::interpret: execute returned Err(e) and Lox::runtime_error(e) prints
\* e.message() and e.line(), which are unreachable!() for a Return; the loop
\* then goes on with the next statement.
InterpretError ==
    /\ dpc = "interpret"
    /\ status = "err"
    /\ kont = <<>>
    /\ IF sig.kind = "Return"
       THEN /\ status' = "panic"
            /\ exit_code' = 101
            /\ UNCHANGED <<sig, errout, had_runtime_error,
                   cloxVars, frontVars>>
       ELSE /\ errout' = Append(errout,
                                sig.message \o "\n[line "
                                    \o NatText(sig.line) \o "]")
            /\ had_runtime_error' = TRUE
            /\ status' = "run"
            /\ sig' = NoSignal
            /\ UNCHANGED exit_code
    /\ UNCHANGED <<mode, session, input, dpc, phases, statements, had_error,
                   globals, resolverVars, cloxVars, frontVars, heap, kont, ret, out>>

\* Lox::run_file after run: exit 65, exit 70 or return Ok
FileExit ==
    /\ mode = "file"
    /\ dpc = "ran"
    /\ dpc' = "exited"
    /\ exit_code' = IF had_error THEN 65
                    ELSE IF had_runtime_error THEN 70 ELSE 0
    /\ UNCHANGED <<mode, session, input, phases, statements, had_error,
                   had_runtime_error, globals, resolverVars,
                   cloxVars, frontVars, heap, kont, ret,
                   status, sig, out, errout>>

\* A prompt loop that goes on to the next line with had_error as it is
PromptNextKeepsFlag ==
    /\ mode = "prompt"
    /\ dpc = "ran"
    /\ dpc' = "start"
    /\ UNCHANGED <<mode, session, input, phases, statements, had_error,
                   had_runtime_error, exit_code, globals, resolverVars,
                   cloxVars, frontVars, heap,
                   kont, ret, status, sig, out, errout>>

\* Lox::run_prompt after run: had_error is reset and the loop goes on
PromptNext ==
    /\ mode = "prompt"
    /\ dpc = "ran"
    /\ had_error' = FALSE
    /\ dpc' = "start"
    /\ UNCHANGED <<mode, session, input, phases, statements,
                   had_runtime_error, exit_code, globals, resolverVars,
                   cloxVars, frontVars, heap, kont,
                   ret, status, sig, out, errout>>


-----------------------------------------------------------------------------
(* Resolver: resolver.rs.  The methods are operators on the resolver's     *)
(* state rs: its scopes and current_function, the interpreter's locals it  *)
(* fills, and the had_error flag and stderr of the Lox it reports to.      *)

\* The key of Interpreter.locals: HashMap<Expr, usize> is given a clone of
\* the node, of which two occurrences with equal tokens are equal values.
RECURSIVE ExprKey(_)
ExprKeys(es) == [i \in DOMAIN es |-> ExprKey(es[i])]

ExprKey(e) ==
    CASE e.t = "Variable" -> [t |-> "Variable", name |-> e.name]
      [] e.t = "Assign" ->
            [t |-> "Assign", name |-> e.name, value |-> ExprKey(e.value)]
      [] e.t \in {"Binary", "Logical"} ->
            [e EXCEPT !.left = ExprKey(@), !.right = ExprKey(@)]
      [] e.t = "Grouping" -> [e EXCEPT !.expression = ExprKey(@)]
      [] e.t = "Unary" -> [e EXCEPT !.right = ExprKey(@)]
      [] e.t = "Call" ->
            [e EXCEPT !.callee = ExprKey(@), !.arguments = ExprKeys(@)]
      [] OTHER -> e

\* Lox::error and Lox::parse_error as the resolver calls them
ResolverReport(rs, line, wher, message) ==
    [rs EXCEPT !.had_error = TRUE,
               !.errout = Append(@, ReportText([line |-> line, wher |-> wher,
                                                message |-> message]))]

\* Resolver::begin_scope
begin_scope(rs) == [rs EXCEPT !.scopes = Append(@, EmptyFrame)]

\* an end_scope that pops nothing
end_scope_skipped(rs) == rs

\* Resolver::end_scope
end_scope(rs) ==
    [rs EXCEPT !.scopes = IF @ = <<>> THEN @ ELSE SubSeq(@, 1, Len(@) - 1)]

\* Resolver::declare
declare(rs, name) ==
    IF rs.scopes = <<>> THEN rs
    ELSE LET top == Len(rs.scopes)
             r1 == IF name.lexeme \in DOMAIN rs.scopes[top]
                   THEN ResolverReport(rs, name.line, "",
                            "Already a variable with this name in this scope.")
                   ELSE rs
         IN  [r1 EXCEPT !.scopes[top] = (name.lexeme :> FALSE) @@ @]

\* define writing to the outermost scope
define_outermost(rs, name) ==
    IF rs.scopes = <<>> THEN rs
    ELSE [rs EXCEPT !.scopes[1] = (name.lexeme :> TRUE) @@ @]

\* Resolver::define (named define_name: define is Environment::define)
define_name(rs, name) ==
    IF rs.scopes = <<>> THEN rs
    ELSE [rs EXCEPT !.scopes[Len(rs.scopes)] = (name.lexeme :> TRUE) @@ @]

\* an insert that adds the depth to the one the table holds for the node
InterpreterResolveAdds(table, expr, depth) ==
    LET key == ExprKey(expr)
    IN  (key :> IF key \in DOMAIN table THEN table[key] + depth ELSE depth)
            @@ table

\* Interpreter::resolve: self.locals.insert(expr, depth)
InterpreterResolve(table, expr, depth) == (ExprKey(expr) :> depth) @@ table

\* Resolver::resolve_local
resolve_local(rs, expr, name) ==
    LET i == FindFrame(rs.scopes, name.lexeme, Len(rs.scopes))
    IN  IF i = 0 THEN rs
        ELSE [rs EXCEPT
                 !.locals = InterpreterResolve(@, expr, Len(rs.scopes) - i),
                 !.resolved = @ \cup {<<expr, Len(rs.scopes) - i>>}]

RECURSIVE resolve_expr(_, _)
RECURSIVE resolve_exprs(_, _)
resolve_exprs(rs, es) ==
    IF es = <<>> THEN rs
    ELSE resolve_exprs(resolve_expr(rs, Head(es)), Tail(es))

\* Resolver::resolve_expr
resolve_expr(rs, expr) ==
    CASE expr.t = "Assign" ->
            resolve_local(resolve_expr(rs, expr.value), expr, expr.name)
      [] expr.t \in {"Binary", "Logical"} ->
            resolve_expr(resolve_expr(rs, expr.left), expr.right)
      [] expr.t = "Call" ->
            resolve_exprs(resolve_expr(rs, expr.callee), expr.arguments)
      [] expr.t = "Grouping" -> resolve_expr(rs, expr.expression)
      [] expr.t = "Unary" -> resolve_expr(rs, expr.right)
      [] expr.t = "Variable" ->
            LET top == Len(rs.scopes)
                own == /\ rs.scopes # <<>>
                       /\ expr.name.lexeme \in DOMAIN rs.scopes[top]
                       /\ ~rs.scopes[top][expr.name.lexeme]
                r1 == IF own
                      THEN ResolverReport(rs, expr.name.line,
                               " at '" \o expr.name.lexeme \o "'",
                               "Can't read local variable in its own initializer")
                      ELSE rs
            IN  resolve_local(r1, expr, expr.name)
      [] OTHER -> rs

RECURSIVE define_params(_, _)
define_params(rs, params) ==
    IF params = <<>> THEN rs
    ELSE define_params(define_name(declare(rs, Head(params)), Head(params)),
                       Tail(params))

RECURSIVE resolve_stmt(_, _)
RECURSIVE resolve(_, _)
\* Resolver::resolve
resolve(rs, stmts) ==
    IF stmts = <<>> THEN rs
    ELSE resolve(resolve_stmt(rs, Head(stmts)), Tail(stmts))

\* The scopes resolve_function opens for the parameters and the body
FunctionScope(rs) == begin_scope(rs)

\* Resolver::resolve_function
resolve_function(rs, params, body, typ) ==
    LET enclosing == rs.current_function
        r1 == FunctionScope([rs EXCEPT !.current_function = typ])
        r2 == resolve(define_params(r1, params), body)
    IN  [end_scope(r2) EXCEPT !.current_function = enclosing]

\* Resolver::resolve_stmt
resolve_stmt(rs, statement) ==
    CASE statement.t = "Block" ->
            end_scope(resolve(begin_scope(rs), statement.statements))
      [] statement.t \in {"Expression", "Print"} ->
            resolve_expr(rs, statement.expression)
      [] statement.t = "Function" ->
            resolve_function(
                define_name(declare(rs, statement.name), statement.name),
                statement.params, statement.body, "Function")
      [] statement.t = "If" ->
            LET r1 == resolve_stmt(resolve_expr(rs, statement.condition),
                                   statement.then_branch)
            IN  IF ~is_null(statement.else_branch)
                THEN resolve_stmt(r1, statement.else_branch)
                ELSE r1
      [] statement.t = "Return" ->
            LET r1 == IF rs.current_function = "None"
                      THEN ResolverReport(rs, statement.keyword.line, "",
                               "Can't return from top-level code")
                      ELSE rs
            IN  IF ~is_null(statement.value)
                THEN resolve_expr(r1, statement.value)
                ELSE r1
      [] statement.t = "Var" ->
            LET r1 == declare(rs, statement.name)
                r2 == IF ~is_null(statement.initializer)
                      THEN resolve_expr(r1, statement.initializer)
                      ELSE r1
            IN  define_name(r2, statement.name)
      [] statement.t = "While" ->
            resolve_stmt(resolve_expr(rs, statement.condition),
                         statement.body)
      [] OTHER -> rs

\* Resolver::new on an interpreter whose locals are `table`
ResolverNew(table, flag, log) ==
    [scopes |-> <<>>, current_function |-> "None", locals |-> table,
     resolved |-> {}, had_error |-> flag, errout |-> log]

-----------------------------------------------------------------------------
(* clox (bytecode): Chunk (chunk.rs), the values (value.rs), the tokens    *)
(* the Scanner hands to the compiler (scanner.rs), the single-pass         *)
(* compiler (compile.rs) and the Vm (vm.rs).  Its values Nil, Bool and     *)
(* Number are the records Nil, Boolean(b) and Number(n) above.             *)

\* const STACK_MAX
STACK_MAX == 256
\* the number of values of a u8
U8 == 256

\* enum OpCode, #[repr(u8)]: the byte of each instruction
OpCode ==
    [Constant |-> 0, Nil |-> 1, True |-> 2, False |-> 3, Equal |-> 4,
     Greater |-> 5, Less |-> 6, Add |-> 7, Subtract |-> 8, Multiply |-> 9,
     Divide |-> 10, Not |-> 11, Negate |-> 12, Return |-> 13]

\* Chunk::new
ChunkNew == [code |-> <<>>, constants |-> <<>>, lines |-> <<>>]

\* write_chunk that records no line
write_chunk_no_line(c, byte, line) == [c EXCEPT !.code = Append(@, byte)]

\* Chunk::write_chunk
write_chunk(c, byte, line) ==
    [c EXCEPT !.code = Append(@, byte), !.lines = Append(@, line)]

\* Chunk::add_constant: the value is pushed and the index returned is
\* `self.constants.len() as u8 - 1`, a u8 subtraction that overflows when
\* the length is a multiple of 256: with overflow checks it panics, without
\* them it wraps.
add_constant(c, value, checks) ==
    LET pushed == [c EXCEPT !.constants = Append(@, value)]
        len8 == Len(pushed.constants) % U8
    IN  IF len8 = 0 /\ checks
        THEN [chunk |-> pushed, panic |-> TRUE, index |-> 0]
        ELSE [chunk |-> pushed, panic |-> FALSE,
              index |-> (len8 - 1) % U8]

\* Value::is_falsey
is_falsey(v) == v.k = "Nil" \/ (v.k = "Boolean" /\ ~v.b)

\* Value::is_number
is_number(v) == v.k = "Number"

\* impl PartialEq for Value (clox)
VmValueEq(a, b) ==
    /\ a.k = b.k
    /\ CASE a.k = "Boolean" -> a.b = b.b
         [] a.k = "Number" -> a.n = b.n
         [] OTHER -> TRUE

\* impl Display for Value (clox)
VmDisplay(v) ==
    CASE v.k = "Boolean" -> IF v.b THEN "true" ELSE "false"
      [] v.k = "Nil" -> "nil"
      [] OTHER -> IntText(v.n)

\* Token::new of the scanner
VmToken(typ, start, length, line) ==
    [typ |-> typ, start |-> start, length |-> length, line |-> line]

\* Token::default: TokenType::Error is the default type
TokenDefault == VmToken("Error", 0, 0, 0)

\* Parser::default
ParserDefault ==
    [current |-> TokenDefault, previous |-> TokenDefault,
     had_error |-> FALSE, panic_mode |-> FALSE]

\* A character is a string of one character; Nul is '\0'
Nul == "NUL"
Blank == " "
Newline == "\n"
AsciiDigits == {"0", "1", "2", "3", "4", "5", "6", "7", "8", "9"}
AsciiLower ==
    {"a", "b", "c", "d", "e", "f", "g", "h", "i", "j", "k", "l", "m", "n",
     "o", "p", "q", "r", "s", "t", "u", "v", "w", "x", "y", "z"}
AsciiUpper ==
    {"A", "B", "C", "D", "E", "F", "G", "H", "I", "J", "K", "L", "M", "N",
     "O", "P", "Q", "R", "S", "T", "U", "V", "W", "X", "Y", "Z"}

\* is_alpha
is_alpha(c) == c \in AsciiLower \/ c \in AsciiUpper \/ c = "_"

\* char::is_ascii_digit
is_ascii_digit(c) == c \in AsciiDigits

\* the characters the sources of the model are written with
Num(n) == DigitText(n)
Plus == "+"
Minus == "-"
Star == "*"
Slash == "/"
LParen == "("
RParen == ")"
\* a character no token starts with
BadChar == "@"

\* A source: Scanner::new collects its characters.  The shape "text" lists
\* them and ends with pad blanks; "sum" is 1+2+2+... and "nested" is
\* 1+(2+(2+...2)), each with n literals.
VmSource(shape, n, chars, pad) ==
    [shape |-> shape, n |-> n, chars |-> chars, pad |-> pad]
SourceOf(chars, pad) == VmSource("text", 0, chars, pad)
SumOf(n) == VmSource("sum", n, <<>>, 0)
NestedOf(n) == VmSource("nested", n, <<>>, 0)
NoSource == SourceOf(<<>>, 0)

\* self.source.len()
SourceLen(src) ==
    CASE src.shape = "sum" -> 2 * src.n - 1
      [] src.shape = "nested" -> 4 * src.n - 3
      [] OTHER -> Len(src.chars) + src.pad

\* self.source[i], for i below the length
CharAt(src, i) ==
    CASE src.shape = "sum" ->
            IF i = 0 THEN Num(1) ELSE IF i % 2 = 1 THEN Plus ELSE Num(2)
      [] src.shape = "nested" ->
            IF i = 0 THEN Num(1)
            ELSE IF i > 3 * src.n - 3 THEN RParen
            ELSE IF i % 3 = 1 THEN Plus
            ELSE IF i % 3 = 2 THEN LParen
            ELSE Num(2)
      [] OTHER -> IF i < Len(src.chars) THEN src.chars[i + 1] ELSE Blank

\* Scanner::new
ScannerNew == [start |-> 0, current |-> 0, line |-> 1]

\* Scanner::at_end
at_end(src, sc) == sc.current >= SourceLen(src)

\* Scanner::advance
scanner_advance(sc) == [sc EXCEPT !.current = @ + 1]

\* Scanner::peek
scanner_peek(src, sc) ==
    IF at_end(src, sc) THEN Nul ELSE CharAt(src, sc.current)

\* Scanner::peek_next tests at_end for current and then indexes
\* source[current + 1]: on the last character the index is the length
peek_next_panics(src, sc) ==
    ~at_end(src, sc) /\ sc.current + 1 >= SourceLen(src)

\* Scanner::peek_next where it does not panic
peek_next(src, sc) ==
    IF at_end(src, sc) THEN Nul ELSE CharAt(src, sc.current + 1)

\* Scanner::make_token
make_token(sc, typ) ==
    VmToken(typ, sc.start, sc.current - sc.start, sc.line)

\* Scanner::error_token: start 0 and the length of the message
error_token(sc, arg) == VmToken("Error", 0, Len(arg), sc.line)

\* what a call of the scanner returns: the token, the scanner after it, and
\* whether the call panicked
Scanned(token, sc) == [token |-> token, scanner |-> sc, panic |-> FALSE]
ScanPanic(sc) == [token |-> TokenDefault, scanner |-> sc, panic |-> TRUE]

\* Scanner::skip_whitespace, the loop of a line comment
RECURSIVE skip_comment(_, _)
skip_comment(src, sc) ==
    IF scanner_peek(src, sc) # Newline /\ ~at_end(src, sc)
    THEN skip_comment(src, scanner_advance(sc))
    ELSE sc

\* Scanner::skip_whitespace
RECURSIVE skip_whitespace(_, _)
skip_whitespace(src, sc) ==
    LET c == scanner_peek(src, sc)
    IN  CASE c \in {Blank, "\r", "\t"} ->
                skip_whitespace(src, scanner_advance(sc))
          [] c = Newline ->
                skip_whitespace(src,
                    scanner_advance([sc EXCEPT !.line = @ + 1]))
          [] c = Slash ->
                IF peek_next_panics(src, sc)
                THEN [scanner |-> sc, panic |-> TRUE]
                ELSE IF peek_next(src, sc) = Slash
                THEN skip_whitespace(src, skip_comment(src, sc))
                ELSE [scanner |-> sc, panic |-> FALSE]
          [] OTHER -> [scanner |-> sc, panic |-> FALSE]

\* the lexeme source[start .. current] as a string
RECURSIVE TextOf(_, _, _)
TextOf(src, from, to) ==
    IF from >= to THEN ""
    ELSE CharAt(src, from) \o TextOf(src, from + 1, to)

\* Scanner::check_keyword: the length is tested against start + length and
\* then the whole lexeme source[self.start .. self.current] against rest
check_keyword(src, sc, start, length, rest, typ) ==
    IF sc.current - sc.start = start + length
       /\ TextOf(src, sc.start, sc.current) = rest
    THEN typ
    ELSE "Identifier"

\* Scanner::identifier_type
identifier_type(src, sc) ==
    LET c == CharAt(src, sc.start)
        d == CharAt(src, sc.start + 1)
    IN  CASE c = "a" -> check_keyword(src, sc, 1, 2, "nd", "And")
          [] c = "c" -> check_keyword(src, sc, 1, 4, "lass", "Class")
          [] c = "e" -> check_keyword(src, sc, 1, 3, "lse", "Else")
          [] c = "f" ->
                IF sc.current > sc.start + 1
                THEN CASE d = "a" ->
                            check_keyword(src, sc, 2, 3, "lse", "False")
                       [] d = "o" -> check_keyword(src, sc, 2, 1, "r", "For")
                       [] d = "u" -> check_keyword(src, sc, 2, 1, "n", "Fun")
                       [] OTHER -> "Identifier"
                ELSE "Identifier"
          [] c = "i" -> check_keyword(src, sc, 1, 1, "f", "If")
          [] c = "n" -> check_keyword(src, sc, 1, 2, "il", "Nil")
          [] c = "o" -> check_keyword(src, sc, 1, 1, "r", "Or")
          [] c = "p" -> check_keyword(src, sc, 1, 4, "rint", "Print")
          [] c = "r" -> check_keyword(src, sc, 1, 5, "eturn", "Return")
          [] c = "s" -> check_keyword(src, sc, 1, 4, "uper", "Super")
          [] c = "t" ->
                IF sc.current > sc.start + 1
                THEN CASE d = "h" ->
                            check_keyword(src, sc, 2, 2, "is", "This")
                       [] d = "r" ->
                            check_keyword(src, sc, 2, 2, "ue", "True")
                       [] OTHER -> "Identifier"
                ELSE "Identifier"
          [] c = "v" -> check_keyword(src, sc, 1, 2, "ar", "Var")
          [] c = "w" -> check_keyword(src, sc, 1, 4, "hile", "While")
          [] OTHER -> "Identifier"

\* the loops `while self.peek().is_ascii_digit()` and, with letters too,
\* the loop of Scanner::identifier
RECURSIVE advance_while(_, _, _)
advance_while(src, sc, letters) ==
    LET c == scanner_peek(src, sc)
    IN  IF is_ascii_digit(c) \/ (letters /\ is_alpha(c))
        THEN advance_while(src, scanner_advance(sc), letters)
        ELSE sc

\* Scanner::identifier
identifier(src, sc) ==
    LET end == advance_while(src, sc, TRUE)
    IN  Scanned(make_token(end, identifier_type(src, end)), end)

\* Scanner::number: peek_next is called when the digits are followed by '.'
number(src, sc) ==
    LET digits == advance_while(src, sc, FALSE)
    IN  IF scanner_peek(src, digits) # "."
        THEN Scanned(make_token(digits, "Number"), digits)
        ELSE IF peek_next_panics(src, digits) THEN ScanPanic(digits)
        ELSE IF is_ascii_digit(peek_next(src, digits))
        THEN LET end == advance_while(src, scanner_advance(digits), FALSE)
             IN  Scanned(make_token(end, "Number"), end)
        ELSE Scanned(make_token(digits, "Number"), digits)

\* Scanner::string, the loop up to the closing quote or the end
RECURSIVE string_body(_, _)
string_body(src, sc) ==
    IF scanner_peek(src, sc) # "\"" /\ ~at_end(src, sc)
    THEN string_body(src,
             scanner_advance(IF scanner_peek(src, sc) = Newline
                             THEN [sc EXCEPT !.line = @ + 1] ELSE sc))
    ELSE sc

\* Scanner::string
string(src, sc) ==
    LET body == string_body(src, sc)
    IN  IF at_end(src, body)
        THEN Scanned(error_token(body, "Unterminated string."), body)
        ELSE Scanned(make_token(scanner_advance(body), "String"),
                     scanner_advance(body))

\* the token types of the characters that are a token by themselves
SingleCharType(c) ==
    CASE c = "(" -> "LeftParen" [] c = ")" -> "RightParen"
      [] c = "{" -> "LeftBrace" [] c = "}" -> "RightBrace"
      [] c = ";" -> "Semicolon" [] c = "," -> "Comma"
      [] c = "." -> "Dot" [] c = "-" -> "Minus"
      [] c = "+" -> "Plus" [] c = "/" -> "Slash"
      [] c = "*" -> "Star"

\* the token types of ! = < > alone and followed by '='
OneOrTwoType(c, two) ==
    CASE c = "!" -> IF two THEN "BangEqual" ELSE "Bang"
      [] c = "=" -> IF two THEN "EqualEqual" ELSE "Equal"
      [] c = "<" -> IF two THEN "LessEqual" ELSE "Less"
      [] c = ">" -> IF two THEN "GreaterEqual" ELSE "Greater"

\* Scanner::matches
matches(src, sc, expected) ==
    ~at_end(src, sc) /\ CharAt(src, sc.current) = expected

\* Scanner::scan_token
scan_token(src, sc0) ==
    LET w == skip_whitespace(src, sc0)
        sc == [w.scanner EXCEPT !.start = w.scanner.current]
    IN  IF w.panic THEN ScanPanic(w.scanner)
        ELSE IF at_end(src, sc) THEN Scanned(make_token(sc, "Eof"), sc)
        ELSE LET c == CharAt(src, sc.current)
                 a == scanner_advance(sc)
             IN  IF is_alpha(c) THEN identifier(src, a)
                 ELSE IF is_ascii_digit(c) THEN number(src, a)
                 ELSE IF c \in {"(", ")", "{", "}", ";", ",", ".", "-", "+",
                                "/", "*"}
                 THEN Scanned(make_token(a, SingleCharType(c)), a)
                 ELSE IF c \in {"!", "=", "<", ">"}
                 THEN LET m == IF matches(src, a, "=")
                               THEN scanner_advance(a) ELSE a
                      IN  Scanned(make_token(m,
                                      OneOrTwoType(c, matches(src, a, "="))),
                                  m)
                 ELSE IF c = "\"" THEN string(src, a)
                 ELSE Scanned(error_token(a, "Unexpected character."), a)

\* Scanner::get_token slices source[start .. start + length] and panics
\* when the slice ends after the end of the source
get_token_panics(src, token) == token.start + token.length > SourceLen(src)

\* Scanner::get_token
get_token(src, token) ==
    TextOf(src, token.start, token.start + token.length)

\* str::parse::<f64> of the literals of the model's sources, which are
\* whole: digits, or digits with a fraction of zeros; from character `from`
\* up to character `to`
RECURSIVE parse_f64(_, _, _)
parse_f64(src, from, to) ==
    IF from >= to THEN 0
    ELSE IF \E i \in from .. to - 1 : CharAt(src, i) = "."
    THEN parse_f64(src, from,
                   CHOOSE i \in from .. to - 1 : CharAt(src, i) = ".")
    ELSE LET digit == CHOOSE d \in 0 .. 9 : DigitText(d) = CharAt(src, to - 1)
         IN  10 * parse_f64(src, from, to - 1) + digit

\* enum Precedence as u8
Precedence ==
    [None |-> 0, Assignment |-> 1, Or |-> 2, And |-> 3, Equality |-> 4,
     Comparison |-> 5, Term |-> 6, Factor |-> 7, Unary |-> 8, Call |-> 9,
     Primary |-> 10]

\* get_rule: the table of the rules file: grouping for `(`, unary and
\* binary (Term) for `-`, binary for `+` (Term), `/` and `*` (Factor),
\* number for a Number; every other token has the default rule.
get_rule(typ) ==
    CASE typ = "LeftParen" ->
            [prefix |-> "grouping", infix |-> "none",
             precedence |-> Precedence.None]
      [] typ = "Minus" ->
            [prefix |-> "unary", infix |-> "binary",
             precedence |-> Precedence.Term]
      [] typ = "Plus" ->
            [prefix |-> "none", infix |-> "binary",
             precedence |-> Precedence.Term]
      [] typ \in {"Slash", "Star"} ->
            [prefix |-> "none", infix |-> "binary",
             precedence |-> Precedence.Factor]
      [] typ = "Number" ->
            [prefix |-> "number", infix |-> "none",
             precedence |-> Precedence.None]
      [] OTHER ->
            [prefix |-> "none", infix |-> "none",
             precedence |-> Precedence.None]

\* Vm::new: the stack is STACK_MAX default values
StackNew == [i \in 0 .. STACK_MAX - 1 |-> Nil]

\* The clox variables while jlox runs: a Vm never used
IdleClox ==
    /\ overflow_checks = FALSE
    /\ vm_session = <<>>
    /\ source = NoSource
    /\ scanner = ScannerNew
    /\ parser = ParserDefault
    /\ chunk = ChunkNew
    /\ ckont = <<>>
    /\ ip = 0
    /\ stack = StackNew
    /\ stack_top = 0
    /\ vpc = "none"
    /\ result = "None"
    /\ vout = <<>>
    /\ verr = <<>>

-----------------------------------------------------------------------------
(* The compiler: compile.rs.  The tasks of ckont are the calls of the       *)
(* compiler's methods that have not returned.                              *)

\* the messages of the panics of the process
IndexPanic == "panicked: index out of bounds"
UnderflowPanic == "panicked: attempt to subtract with overflow"
TodoPanic == "panicked: not yet implemented"
OverflowPanic == "panicked: attempt to subtract with overflow (u8)"
SlicePanic == "panicked: byte index out of range"

CTop == ckont[1]
CRest == Tail(ckont)
Compiling(k) == vpc = "compile" /\ ckont # <<>> /\ CTop.k = k

CAdvance == [k |-> "advance"]
CExpression == [k |-> "expression"]
CParsePrecedence(precedence) ==
    [k |-> "parse_precedence", precedence |-> precedence]
CConsume(typ, message) == [k |-> "consume", typ |-> typ, message |-> message]

\* error_at without the test of panic_mode
error_at_always(ps, log, token, message) ==
    [parser |-> [ps EXCEPT !.panic_mode = TRUE, !.had_error = TRUE],
     verr |-> Append(log,
                 "[line " \o NatText(token.line) \o "] Error"
                     \o (IF token.typ = "Eof" THEN " at end"
                         ELSE IF token.typ = "Error" THEN ""
                         ELSE " at '" \o message \o "'"))]

\* Vm::error_at on the parser ps with the stderr log: the result is both
error_at(ps, log, token, message) ==
    IF ps.panic_mode THEN [parser |-> ps, verr |-> log]
    ELSE [parser |-> [ps EXCEPT !.panic_mode = TRUE, !.had_error = TRUE],
          verr |-> Append(log,
                      "[line " \o NatText(token.line) \o "] Error"
                          \o (IF token.typ = "Eof" THEN " at end"
                              ELSE IF token.typ = "Error" THEN ""
                              ELSE " at '" \o message \o "'"))]

\* Vm::emit_byte: the line is that of parser.previous
emit_byte(c, ps, byte) == write_chunk(c, byte, ps.previous.line)

\* Vm::emit_bytes
emit_bytes(c, ps, byte1, byte2) ==
    emit_byte(emit_byte(c, ps, byte1), ps, byte2)

\* Vm::make_constant: nothing is tested, the index is add_constant's
make_constant(c, value, checks) == add_constant(c, value, checks)

vmRunVars == <<ip, stack, stack_top, vout>>

\* Vm::interpret up to the first call of compile: a new chunk and scanner,
\* both flags cleared, then advance, expression, consume(Eof) and end
CompileBegin ==
    /\ vpc = "idle"
    /\ vm_session # <<>>
    /\ source' = Head(vm_session)
    /\ vm_session' = Tail(vm_session)
    /\ scanner' = ScannerNew
    /\ chunk' = ChunkNew
    /\ parser' = [parser EXCEPT !.had_error = FALSE, !.panic_mode = FALSE]
    /\ ckont' = <<CAdvance, CExpression,
                  CConsume("Eof", "Expect end of expression."),
                  [k |-> "end"]>>
    /\ vpc' = "compile"
    /\ result' = "None"
    /\ UNCHANGED <<jloxVars, overflow_checks, vmRunVars, verr>>

\* Vm::advance: previous takes current, then the loop scans
Advance ==
    /\ Compiling("advance")
    /\ parser' = [parser EXCEPT !.previous = parser.current,
                                !.current = TokenDefault]
    /\ ckont' = <<[k |-> "scan"]>> \o CRest
    /\ UNCHANGED <<jloxVars, overflow_checks, vm_session, source, scanner,
                   chunk, vmRunVars, vpc, result, verr>>

\* Vm::advance, one turn of the loop: a token other than Error ends it, an
\* Error token goes to error_at_current with the text get_token slices
ScanToken ==
    /\ Compiling("scan")
    /\ LET scanned == scan_token(source, scanner)
           tok == scanned.token
           ps == [parser EXCEPT !.current = tok]
       IN  /\ scanner' = scanned.scanner
           /\ IF scanned.panic
              THEN /\ vpc' = "panic"
                   /\ result' = IndexPanic
                   /\ UNCHANGED <<parser, ckont, verr>>
              ELSE IF tok.typ # "Error"
              THEN /\ parser' = ps
                   /\ ckont' = CRest
                   /\ UNCHANGED <<vpc, result, verr>>
              ELSE IF get_token_panics(source, tok)
              THEN /\ parser' = ps
                   /\ vpc' = "panic"
                   /\ result' = SlicePanic
                   /\ UNCHANGED <<ckont, verr>>
              ELSE LET e == error_at(ps, verr, tok, get_token(source, tok))
                   IN  /\ parser' = e.parser
                       /\ verr' = e.verr
                       /\ UNCHANGED <<ckont, vpc, result>>
    /\ UNCHANGED <<jloxVars, overflow_checks, vm_session, source, chunk,
                   vmRunVars>>

\* Vm::expression
Expression_ ==
    /\ Compiling("expression")
    /\ ckont' = <<CParsePrecedence(Precedence.Assignment)>> \o CRest
    /\ UNCHANGED <<jloxVars, overflow_checks, vm_session, source, scanner,
                   parser, chunk, vmRunVars, vpc, result, verr>>

\* Vm::parse_precedence: advance, then the prefix rule of previous
ParsePrecedence ==
    /\ Compiling("parse_precedence")
    /\ ckont' = <<CAdvance,
                  [k |-> "prefix", precedence |-> CTop.precedence]>> \o CRest
    /\ UNCHANGED <<jloxVars, overflow_checks, vm_session, source, scanner,
                   parser, chunk, vmRunVars, vpc, result, verr>>

\* the value Vm::number parses from the lexeme of a token
NumberOf(src, token) ==
    parse_f64(src, token.start, token.start + token.length)

PrefixRule == get_rule(parser.previous.typ).prefix
CInfix == [k |-> "infix", precedence |-> CTop.precedence]

\* Vm::parse_precedence: no prefix rule, error("Expect expression.") and
\* return
PrefixNone ==
    /\ Compiling("prefix")
    /\ PrefixRule = "none"
    /\ LET e == error_at(parser, verr, parser.previous, "Expect expression.")
       IN  /\ parser' = e.parser
           /\ verr' = e.verr
    /\ ckont' = CRest
    /\ UNCHANGED <<jloxVars, overflow_checks, vm_session, source, scanner,
                   chunk, vmRunVars, vpc, result>>

\* Vm::number and Vm::emit_constant
PrefixNumber ==
    /\ Compiling("prefix")
    /\ PrefixRule = "number"
    /\ LET c == make_constant(chunk, Number(NumberOf(source, parser.previous)),
                              overflow_checks)
       IN  IF c.panic
           THEN /\ chunk' = c.chunk
                /\ vpc' = "panic"
                /\ result' = OverflowPanic
                /\ UNCHANGED ckont
           ELSE /\ chunk' = emit_bytes(c.chunk, parser, OpCode.Constant,
                                       c.index)
                /\ ckont' = <<CInfix>> \o CRest
                /\ UNCHANGED <<vpc, result>>
    /\ UNCHANGED <<jloxVars, overflow_checks, vm_session, source, scanner,
                   parser, vmRunVars, verr>>

\* Vm::grouping
PrefixGrouping ==
    /\ Compiling("prefix")
    /\ PrefixRule = "grouping"
    /\ ckont' = <<CExpression,
                  CConsume("RightParen", "Expect ')' after expression."),
                  CInfix>> \o CRest
    /\ UNCHANGED <<jloxVars, overflow_checks, vm_session, source, scanner,
                   parser, chunk, vmRunVars, vpc, result, verr>>

\* Vm::unary: the operand first
PrefixUnary ==
    /\ Compiling("prefix")
    /\ PrefixRule = "unary"
    /\ ckont' = <<CParsePrecedence(Precedence.Unary),
                  [k |-> "emit", byte |-> OpCode.Negate],
                  CInfix>> \o CRest
    /\ UNCHANGED <<jloxVars, overflow_checks, vm_session, source, scanner,
                   parser, chunk, vmRunVars, vpc, result, verr>>

\* Vm::parse_precedence, the while loop: an operator that binds at least
\* as tightly as the caller asked is consumed and its infix rule invoked
Infix ==
    /\ Compiling("infix")
    /\ ckont' = IF CTop.precedence <= get_rule(parser.current.typ).precedence
                THEN <<CAdvance, [k |-> "infix_rule"]>> \o ckont
                ELSE CRest
    /\ UNCHANGED <<jloxVars, overflow_checks, vm_session, source, scanner,
                   parser, chunk, vmRunVars, vpc, result, verr>>

\* the byte Vm::binary emits for an operator
binary_byte(typ) ==
    CASE typ = "Plus" -> OpCode.Add
      [] typ = "Minus" -> OpCode.Subtract
      [] typ = "Slash" -> OpCode.Divide
      [] typ = "Star" -> OpCode.Multiply

\* Vm::binary with the right operand parsed at the operator's own level
BinarySameLevel ==
    /\ Compiling("infix_rule")
    /\ get_rule(parser.previous.typ).infix = "binary"
    /\ ckont' = <<CParsePrecedence(get_rule(parser.previous.typ).precedence),
                  [k |-> "emit", byte |-> binary_byte(parser.previous.typ)]>>
                \o CRest
    /\ UNCHANGED <<jloxVars, overflow_checks, vm_session, source, scanner,
                   parser, chunk, vmRunVars, vpc, result, verr>>

\* Vm::binary: the right operand one level tighter, then the operator
Binary_ ==
    /\ Compiling("infix_rule")
    /\ get_rule(parser.previous.typ).infix = "binary"
    /\ ckont' = <<CParsePrecedence(
                      get_rule(parser.previous.typ).precedence + 1),
                  [k |-> "emit", byte |-> binary_byte(parser.previous.typ)]>>
                \o CRest
    /\ UNCHANGED <<jloxVars, overflow_checks, vm_session, source, scanner,
                   parser, chunk, vmRunVars, vpc, result, verr>>

\* the emit_byte that ends Vm::binary and Vm::unary
EmitOperator ==
    /\ Compiling("emit")
    /\ chunk' = emit_byte(chunk, parser, CTop.byte)
    /\ ckont' = CRest
    /\ UNCHANGED <<jloxVars, overflow_checks, vm_session, source, scanner,
                   parser, vmRunVars, vpc, result, verr>>

\* Vm::consume
Consume ==
    /\ Compiling("consume")
    /\ IF parser.current.typ = CTop.typ
       THEN /\ ckont' = <<CAdvance>> \o CRest
            /\ UNCHANGED <<parser, verr>>
       ELSE LET e == error_at(parser, verr, parser.current, CTop.message)
            IN  /\ parser' = e.parser
                /\ verr' = e.verr
                /\ ckont' = CRest
    /\ UNCHANGED <<jloxVars, overflow_checks, vm_session, source, scanner,
                   chunk, vmRunVars, vpc, result>>

\* the end of compile without the test of had_error
CompileEndRuns ==
    /\ Compiling("end")
    /\ chunk' = emit_byte(chunk, parser, OpCode.Return)
    /\ ckont' = <<>>
    /\ ip' = 0
    /\ vpc' = "run"
    /\ UNCHANGED <<jloxVars, overflow_checks, vm_session, source, scanner,
                   parser, stack, stack_top, vout, verr, result>>

\* Vm::end, the end of Vm::compile and the rest of Vm::interpret up to the
\* call of run: Return is emitted; with had_error set interpret returns
\* CompileError through `?`, otherwise ip is 0 and run starts
CompileEnd ==
    /\ Compiling("end")
    /\ chunk' = emit_byte(chunk, parser, OpCode.Return)
    /\ ckont' = <<>>
    /\ IF parser.had_error
       THEN /\ result' = "CompileError"
            /\ vpc' = "idle"
            /\ UNCHANGED ip
       ELSE /\ ip' = 0
            /\ vpc' = "run"
            /\ UNCHANGED result
    /\ UNCHANGED <<jloxVars, overflow_checks, vm_session, source, scanner,
                   parser, stack, stack_top, vout, verr>>

-----------------------------------------------------------------------------
(* The virtual machine: Vm::run, one action per arm of the dispatch.  A     *)
(* panic of the process leaves its message in result.                      *)

VmRunning == vpc = "run"
InCode == ip < Len(chunk.code)
instruction == chunk.code[ip + 1]
Dispatch(byte) == VmRunning /\ InCode /\ instruction = byte


\* a panic: the process ends, the machine is left as it was
VmPanic(message) ==
    /\ vpc' = "panic"
    /\ result' = message
    /\ UNCHANGED <<ip, stack, stack_top, vout, verr>>

\* Vm::push after n pops of the instruction: stack[stack_top] = value with
\* the bounds check of the array, then stack_top += 1.  Vm::pop takes the
\* value and leaves the default, Nil.
PushAfterPops(n, value, width) ==
    IF stack_top < n THEN VmPanic(UnderflowPanic)
    ELSE IF stack_top - n >= STACK_MAX THEN VmPanic(IndexPanic)
    ELSE /\ stack' = [i \in DOMAIN stack |->
                        IF i = stack_top - n THEN value
                        ELSE IF i > stack_top - n /\ i < stack_top THEN Nil
                        ELSE stack[i]]
         /\ stack_top' = stack_top - n + 1
         /\ ip' = ip + width
         /\ UNCHANGED <<vpc, result, vout, verr>>

\* Vm::peek
peek(distance) == stack[stack_top - 1 - distance]

\* runtime_error that leaves the stack as it is
runtime_error_keeps_stack(msg) ==
    /\ verr' = verr \o <<msg, "[line " \o NatText(chunk.lines[ip + 1])
                                \o " in script">>
    /\ result' = "RuntimeError"
    /\ vpc' = "idle"
    /\ ip' = ip + 1
    /\ UNCHANGED <<stack, stack_top, vout>>

\* Vm::runtime_error and the return of Err(RuntimeError): the message and
\* the line of the instruction on stderr, then reset_stack
runtime_error(msg) ==
    /\ verr' = verr \o <<msg, "[line " \o NatText(chunk.lines[ip + 1])
                                \o " in script">>
    /\ stack_top' = 0
    /\ result' = "RuntimeError"
    /\ vpc' = "idle"
    /\ ip' = ip + 1
    /\ UNCHANGED <<stack, vout>>

vmFixed == <<jloxVars, overflow_checks, vm_session, source, scanner, parser,
             chunk, ckont>>

\* read_byte with ip at the end of the code
ReadPastEnd ==
    /\ VmRunning
    /\ ~InCode
    /\ VmPanic(IndexPanic)
    /\ UNCHANGED vmFixed

\* OpCode::Constant: read_constant, then push
OpConstant ==
    /\ Dispatch(OpCode.Constant)
    /\ IF ip + 1 >= Len(chunk.code) THEN VmPanic(IndexPanic)
       ELSE IF chunk.code[ip + 2] >= Len(chunk.constants)
       THEN VmPanic(IndexPanic)
       ELSE PushAfterPops(0, chunk.constants[chunk.code[ip + 2] + 1], 2)
    /\ UNCHANGED vmFixed

\* OpCode::Nil
OpNil ==
    /\ Dispatch(OpCode.Nil)
    /\ PushAfterPops(0, Nil, 1)
    /\ UNCHANGED vmFixed

\* OpCode::True
OpTrue ==
    /\ Dispatch(OpCode.True)
    /\ PushAfterPops(0, Boolean(TRUE), 1)
    /\ UNCHANGED vmFixed

\* OpCode::False
OpFalse ==
    /\ Dispatch(OpCode.False)
    /\ PushAfterPops(0, Boolean(FALSE), 1)
    /\ UNCHANGED vmFixed

\* OpCode::Equal
OpEqual ==
    /\ Dispatch(OpCode.Equal)
    /\ IF stack_top < 2 THEN VmPanic(UnderflowPanic)
       ELSE PushAfterPops(2, Boolean(VmValueEq(peek(1), peek(0))), 1)
    /\ UNCHANGED vmFixed

BinaryOps ==
    {OpCode.Greater, OpCode.Less, OpCode.Add, OpCode.Subtract,
     OpCode.Multiply, OpCode.Divide}

\* a / b for the quotients of the model's sources and chunks, which are
\* whole: b is not 0 and divides a
Abs(a) == IF a < 0 THEN 0 - a ELSE a
Quotient(a, b) ==
    IF b = 0 THEN 0
    ELSE IF (a < 0) = (b < 0) THEN Abs(a) \div Abs(b)
    ELSE 0 - (Abs(a) \div Abs(b))

\* the value binary_op! pushes for the numbers a and b
binary_value(op, a, b) ==
    CASE op = OpCode.Greater -> Boolean(a > b)
      [] op = OpCode.Less -> Boolean(a < b)
      [] op = OpCode.Add -> Number(a + b)
      [] op = OpCode.Subtract -> Number(a - b)
      [] op = OpCode.Multiply -> Number(a * b)
      [] op = OpCode.Divide -> Number(Quotient(a, b))

\* binary_op!: peek(0) is tested first and peek(1) only when peek(0) is a
\* number
OperandsAreNumbers ==
    is_number(peek(0)) /\ is_number(peek(1))

OpBinary ==
    /\ VmRunning /\ InCode /\ instruction \in BinaryOps
    /\ IF stack_top = 0 THEN VmPanic(UnderflowPanic)
       ELSE IF ~is_number(peek(0))
       THEN runtime_error("Operands must be numbers.")
       ELSE IF stack_top = 1 THEN VmPanic(UnderflowPanic)
       ELSE IF ~OperandsAreNumbers
       THEN runtime_error("Operands must be numbers.")
       ELSE PushAfterPops(2, binary_value(instruction, peek(1).n, peek(0).n),
                          1)
    /\ UNCHANGED vmFixed

\* OpCode::Not
OpNot ==
    /\ Dispatch(OpCode.Not)
    /\ IF stack_top < 1 THEN VmPanic(UnderflowPanic)
       ELSE PushAfterPops(1, Boolean(is_falsey(peek(0))), 1)
    /\ UNCHANGED vmFixed

\* OpCode::Negate
OpNegate ==
    /\ Dispatch(OpCode.Negate)
    /\ IF stack_top = 0 THEN VmPanic(UnderflowPanic)
       ELSE IF ~is_number(peek(0))
       THEN runtime_error("Operand must be a number")
       ELSE PushAfterPops(1, Number(0 - peek(0).n), 1)
    /\ UNCHANGED vmFixed

\* a Return that prints the top of the stack and leaves it there
OpReturnPeeks ==
    /\ Dispatch(OpCode.Return)
    /\ IF stack_top = 0 THEN VmPanic(UnderflowPanic)
       ELSE /\ vout' = Append(vout, VmDisplay(peek(0)))
            /\ ip' = ip + 1
            /\ result' = "Ok"
            /\ vpc' = "idle"
            /\ UNCHANGED <<stack, stack_top, verr>>
    /\ UNCHANGED vmFixed

\* OpCode::Return: the popped value is printed and run returns Ok
OpReturn ==
    /\ Dispatch(OpCode.Return)
    /\ IF stack_top = 0 THEN VmPanic(UnderflowPanic)
       ELSE /\ vout' = Append(vout, VmDisplay(peek(0)))
            /\ stack' = [stack EXCEPT ![stack_top - 1] = Nil]
            /\ stack_top' = stack_top - 1
            /\ ip' = ip + 1
            /\ result' = "Ok"
            /\ vpc' = "idle"
            /\ UNCHANGED verr
    /\ UNCHANGED vmFixed

\* a byte that is no OpCode: todo!()
OpUnknown ==
    /\ VmRunning /\ InCode /\ instruction > OpCode.Return
    /\ VmPanic(TodoPanic)
    /\ UNCHANGED vmFixed

-----------------------------------------------------------------------------
(* jlox: Scanner (scanner.rs).  The source is the sequence of its chars;   *)
(* start and current count chars, as in the Rust code.  The methods are    *)
(* operators on the scanner s; a step of scan_token gives the scanner it   *)
(* leaves, the errors it reports to Lox::error and whether it panicked.    *)

\* a char whose UTF-8 encoding has two bytes
EAcute == "é"

\* char::len_utf8
len_utf8(c) == IF c = EAcute THEN 2 ELSE 1

KEYWORDS ==
    [lexeme \in {"and", "class", "else", "false", "for", "fun", "if", "nil",
                 "or", "print", "return", "super", "this", "true", "var",
                 "while"} |->
        CASE lexeme = "and" -> "And"
          [] lexeme = "class" -> "Class"
          [] lexeme = "else" -> "Else"
          [] lexeme = "false" -> "False"
          [] lexeme = "for" -> "For"
          [] lexeme = "fun" -> "Fun"
          [] lexeme = "if" -> "If"
          [] lexeme = "nil" -> "Nil"
          [] lexeme = "or" -> "Or"
          [] lexeme = "print" -> "Print"
          [] lexeme = "return" -> "Return"
          [] lexeme = "super" -> "Super"
          [] lexeme = "this" -> "This"
          [] lexeme = "true" -> "True"
          [] lexeme = "var" -> "Var"
          [] lexeme = "while" -> "While"]

\* Scanner::new
LoxScanner(chars) ==
    [source |-> chars, tokens |-> <<>>, start |-> 0, current |-> 0,
     line |-> 1, pc |-> "scan"]

\* no scan_tokens is running
NoScanner == [LoxScanner(<<>>) EXCEPT !.pc = "idle"]

\* chars().skip(from).take(n).collect()
RECURSIVE Collect(_, _, _)
Collect(chars, from, n) ==
    IF n <= 0 \/ from >= Len(chars) THEN ""
    ELSE chars[from + 1] \o Collect(chars, from + 1, n - 1)

lox_at_end(s) == s.current >= Len(s.source)

\* Scanner::advance; the char it returns is s.source[s.current + 1]
lox_advance(s) == [s EXCEPT !.current = @ + 1]

lox_peek(s) == IF lox_at_end(s) THEN Nul ELSE s.source[s.current + 1]

lox_peek_next(s) ==
    IF s.current + 1 >= Len(s.source) THEN Nul ELSE s.source[s.current + 2]

\* Token::new with a literal that is not Literal::Null
LiteralToken(typ, lexeme, literal, line) ==
    [typ |-> typ, lexeme |-> lexeme, literal |-> literal, line |-> line]

add_token(s, typ, literal) ==
    LET text == Collect(s.source, s.start, s.current - s.start)
    IN  [s EXCEPT !.tokens =
            Append(@, IF literal = LitNull THEN Token(typ, text, s.line)
                      ELSE LiteralToken(typ, text, literal, s.line))]

lox_matches(s, arg) ==
    IF lox_at_end(s) \/ s.source[s.current + 1] # arg
    THEN [matched |-> FALSE, scanner |-> s]
    ELSE [matched |-> TRUE, scanner |-> lox_advance(s)]

\* what a panic of the scanner prints
BoundaryPanic == "panicked: byte index is not a char boundary"
UnwrapPanic == "panicked: called Result::unwrap() on an Err value"

\* the outcomes of a call of scan_token
LoxScanned(s) == [scanner |-> s, errors |-> <<>>, panic |-> ""]
LoxError(s, message) ==
    [scanner |-> s,
     errors |-> <<[line |-> s.line, wher |-> "", message |-> message]>>,
     panic |-> ""]
LoxPanic(s, message) == [scanner |-> s, errors |-> <<>>, panic |-> message]

\* the macro operator!
operator(s, want, then, else) ==
    LET m == lox_matches(s, want)
    IN  add_token(m.scanner, IF m.matched THEN then ELSE else, LitNull)

\* the loop of a comment: while peek() != '\n' && !at_end() { advance() }
RECURSIVE lox_skip_comment(_)
lox_skip_comment(s) ==
    IF lox_peek(s) # Newline /\ ~lox_at_end(s)
    THEN lox_skip_comment(lox_advance(s))
    ELSE s

\* while is_alphanumeric(peek()) { advance() }
is_alphanumeric(c) == is_ascii_digit(c) \/ is_alpha(c)

RECURSIVE alphanumerics(_)
alphanumerics(s) ==
    IF is_alphanumeric(lox_peek(s)) THEN alphanumerics(lox_advance(s)) ELSE s

lox_identifier(s0) ==
    LET s == alphanumerics(s0)
        text == Collect(s.source, s.start, s.current - s.start)
        typ == IF text \in DOMAIN KEYWORDS THEN KEYWORDS[text]
               ELSE "Identifier"
    IN  add_token(s, typ, LitNull)

\* while peek().is_digit(RADIX) { advance() }
RECURSIVE lox_digits(_)
lox_digits(s) ==
    IF is_ascii_digit(lox_peek(s)) THEN lox_digits(lox_advance(s)) ELSE s

\* the byte offset of the char with index k
RECURSIVE byte_offset(_, _)
byte_offset(chars, k) ==
    IF k = 0 THEN 0 ELSE byte_offset(chars, k - 1) + len_utf8(chars[k])

is_char_boundary(chars, b) ==
    \E k \in 0 .. Len(chars) : byte_offset(chars, k) = b

\* the chars of the byte range from .. to, both on a char boundary
str_index(chars, from, to) ==
    LET char_at(b) == CHOOSE k \in 0 .. Len(chars) : byte_offset(chars, k) = b
    IN  SubSeq(chars, char_at(from) + 1, char_at(to))

\* str::parse::<f64> accepts a decimal numeral: an optional sign, digits
\* with at most one '.' among them and at least one digit.  (Exponents, inf
\* and nan need letters of which the sources of the model have none.)
parses_as_f64(text) ==
    LET body == IF text # <<>> /\ Head(text) \in {"+", "-"} THEN Tail(text)
                ELSE text
    IN  /\ \A i \in DOMAIN body : is_ascii_digit(body[i]) \/ body[i] = "."
        /\ Cardinality({i \in DOMAIN body : body[i] = "."}) <= 1
        /\ \E i \in DOMAIN body : is_ascii_digit(body[i])

\* Scanner::number.  The literal is source[start..current], a slice by BYTE
\* offsets, parsed and unwrapped; the number is written as its numeral.
lox_number(s0) ==
    LET whole == lox_digits(s0)
        s == IF lox_peek(whole) = "." /\ is_ascii_digit(lox_peek_next(whole))
             THEN lox_digits(lox_advance(whole))
             ELSE whole
    IN  IF ~(is_char_boundary(s.source, s.start)
             /\ is_char_boundary(s.source, s.current))
        THEN LoxPanic(s, BoundaryPanic)
        ELSE LET text == str_index(s.source, s.start, s.current)
             IN  IF ~parses_as_f64(text) THEN LoxPanic(s, UnwrapPanic)
                 ELSE LoxScanned(add_token(s, "Number",
                          LitNumber(Collect(text, 0, Len(text)))))

\* the loop of Scanner::string
RECURSIVE lox_string_body(_)
lox_string_body(s) ==
    IF lox_peek(s) # "\"" /\ ~lox_at_end(s)
    THEN lox_string_body(lox_advance(
             IF lox_peek(s) = Newline THEN [s EXCEPT !.line = @ + 1] ELSE s))
    ELSE s

lox_string(s0) ==
    LET body == lox_string_body(s0)
    IN  IF lox_at_end(body) THEN LoxError(body, "Unterminated string.")
        ELSE LET s == lox_advance(body)
             IN  LoxScanned(add_token(s, "String",
                     LitString(Collect(s.source, s.start + 1,
                                       s.current - 1 - s.start - 1))))

\* the arms of scan_token that add one token for one char
SingleChars ==
    [c \in {"(", ")", "{", "}", ",", ".", "-", "+", ";", "*"} |->
        CASE c = "(" -> "LeftParen"
          [] c = ")" -> "RightParen"
          [] c = "{" -> "LeftBrace"
          [] c = "}" -> "RightBrace"
          [] c = "," -> "Comma"
          [] c = "." -> "Dot"
          [] c = "-" -> "Minus"
          [] c = "+" -> "Plus"
          [] c = ";" -> "Semicolon"
          [] c = "*" -> "Star"]

\* the arms of scan_token that go through operator!
Operators2 ==
    [c \in {"!", "=", "<", ">"} |->
        CASE c = "!" -> <<"BangEqual", "Bang">>
          [] c = "=" -> <<"EqualEqual", "Equal">>
          [] c = "<" -> <<"LessEqual", "Less">>
          [] c = ">" -> <<"GreaterEqual", "Greater">>]

\* Scanner::scan_token
lox_scan_token(s0) ==
    LET c == s0.source[s0.current + 1]
        s == lox_advance(s0)
    IN  CASE c \in DOMAIN SingleChars ->
                LoxScanned(add_token(s, SingleChars[c], LitNull))
          [] c \in DOMAIN Operators2 ->
                LoxScanned(operator(s, "=", Operators2[c][1],
                                    Operators2[c][2]))
          [] c = "/" ->
                LET m == lox_matches(s, "/")
                IN  IF m.matched THEN LoxScanned(lox_skip_comment(m.scanner))
                    ELSE LoxScanned(add_token(s, "Slash", LitNull))
          [] c \in {" ", "\r", "\t"} -> LoxScanned(s)
          [] c = Newline -> LoxScanned([s EXCEPT !.line = @ + 1])
          [] c = "\"" -> lox_string(s)
          [] OTHER ->
                IF is_ascii_digit(c) THEN lox_number(s)
                ELSE IF is_alpha(c) THEN LoxScanned(lox_identifier(s))
                ELSE LoxError(s, "Unexpected character.")

\* Scanner::scan_tokens: a turn of its loop
ScanTokens ==
    /\ lox_scanner.pc = "scan"
    /\ ~lox_at_end(lox_scanner)
    /\ LET scanned ==
               lox_scan_token([lox_scanner EXCEPT
                                  !.start = lox_scanner.current])
       IN  /\ lox_scanner' =
                  [scanned.scanner EXCEPT
                      !.pc = IF scanned.panic # "" THEN "panic" ELSE @]
           /\ had_error' = (had_error \/ scanned.errors # <<>>)
           /\ errout' = IF scanned.panic # ""
                        THEN Append(errout, scanned.panic)
                        ELSE ReportAll(errout, scanned.errors)
    /\ UNCHANGED <<mode, session, input, dpc, phases, statements,
                   had_runtime_error, exit_code, globals, resolverVars,
                   heap, kont, ret, status, sig, out, lox_parser, cloxVars>>

\* Scanner::scan_tokens: the loop is over, Eof is pushed and the tokens are
\* returned
ScanTokensEnd ==
    /\ lox_scanner.pc = "scan"
    /\ lox_at_end(lox_scanner)
    /\ lox_scanner' =
           [lox_scanner EXCEPT
               !.tokens = Append(@, Token("Eof", "", lox_scanner.line)),
               !.pc = "done"]
    /\ UNCHANGED <<mode, session, input, dpc, phases, statements, had_error,
                   had_runtime_error, exit_code, globals, resolverVars,
                   heap, kont, ret, status, sig, out, errout, lox_parser,
                   cloxVars>>

-----------------------------------------------------------------------------
(* jlox: Parser (parser.rs).  The methods are operators on the parser p:   *)
(* its tokens and current, the errors it has reported to Lox::parse_error  *)
(* and, for the properties, where each call of synchronize started and     *)
(* stopped.  A method that returns Result gives Ok(node, p) or Err(p).     *)

ARG_LIMIT == 255

\* Parser::new
LoxParser(tokens) ==
    [tokens |-> tokens, current |-> 0, errors |-> <<>>, syncs |-> <<>>,
     statements |-> <<>>, pc |-> "parse"]

Ok(node, p) == [ok |-> TRUE, node |-> node, p |-> p]
Err(p) == [ok |-> FALSE, p |-> p]

parser_peek(p) == p.tokens[p.current + 1]

previous(p) == p.tokens[p.current]

parser_at_end(p) == parser_peek(p).typ = "Eof"

check(p, typ) == ~parser_at_end(p) /\ parser_peek(p).typ = typ

\* Parser::advance; the token it returns is previous of the result
parser_advance(p) ==
    IF ~parser_at_end(p) THEN [p EXCEPT !.current = @ + 1] ELSE p

parser_matches(p, types) ==
    IF \E typ \in types : check(p, typ)
    THEN [matched |-> TRUE, p |-> parser_advance(p)]
    ELSE [matched |-> FALSE, p |-> p]

\* Parser::error with Lox::parse_error
error(p, token, message) ==
    [p EXCEPT !.errors =
        Append(@, [line |-> token.line,
                   wher |-> IF token.typ = "Eof" THEN " at end"
                            ELSE " at '" \o token.lexeme \o "'",
                   message |-> message])]

consume(p, typ, message) ==
    IF check(p, typ)
    THEN Ok(previous(parser_advance(p)), parser_advance(p))
    ELSE Err(error(p, parser_peek(p), message))

\* the loop of Parser::synchronize
RECURSIVE synchronizing(_)
synchronizing(p) ==
    IF parser_at_end(p) THEN p
    ELSE IF previous(p).typ = "Semicolon" THEN p
    ELSE IF parser_peek(p).typ \in
                {"Class", "For", "Fun", "If", "Print", "Return", "Var",
                 "While"}
    THEN p
    ELSE synchronizing(parser_advance(p))

synchronize(p) ==
    LET q == synchronizing(parser_advance(p))
    IN  [q EXCEPT !.syncs =
            Append(@, [from |-> p.current, to |-> q.current])]

\* the operator `?`: an Err is returned at once, an Ok is handed on
Try(r, rest(_)) == IF ~r.ok THEN r ELSE rest(r)

\* the operators of a level of binary expressions and the level below it
BinaryLevel ==
    [or |-> [types |-> {"Or"}, below |-> "and", logical |-> TRUE],
     and |-> [types |-> {"And"}, below |-> "equality", logical |-> TRUE],
     equality |-> [types |-> {"BangEqual", "EqualEqual"},
                   below |-> "comparison", logical |-> FALSE],
     comparison |-> [types |-> {"Greater", "GreaterEqual", "Less",
                                "LessEqual"},
                     below |-> "term", logical |-> FALSE],
     term |-> [types |-> {"Minus", "Plus"}, below |-> "factor",
               logical |-> FALSE],
     factor |-> [types |-> {"Slash", "Star"}, below |-> "unary",
                 logical |-> FALSE]]

RECURSIVE assignment(_)
RECURSIVE binary_level(_, _)
RECURSIVE binary_loop(_, _, _)
RECURSIVE unary(_)
RECURSIVE call_loop(_, _)
RECURSIVE arguments(_, _)
RECURSIVE primary(_)

expression(p) == assignment(p)

\* Parser::assignment after `=`: an invalid target is reported and the
\* expression on the left returned, the value dropped
assign_to(left, equals, value) ==
    IF left.node.t = "Variable"
    THEN Ok(Assign(left.node.name, value.node, left.node.at), value.p)
    ELSE Ok(left.node, error(value.p, equals, "Invalid assignment target."))

assignment(p) ==
    Try(binary_level(p, "or"), LAMBDA left :
        IF ~check(left.p, "Equal") THEN left
        ELSE Try(assignment(parser_advance(left.p)), LAMBDA value :
                 assign_to(left, parser_peek(left.p), value)))

\* the operand of a level: the level below it
operand_of(p, level) ==
    IF BinaryLevel[level].below = "unary" THEN unary(p)
    ELSE binary_level(p, BinaryLevel[level].below)

\* Parser::or, and, equality, comparison, term, factor: the operand of the
\* level below, then the loop over the operators of the level
binary_level(p, level) ==
    Try(operand_of(p, level), LAMBDA first :
        binary_loop(first.p, first.node, level))

binary_loop(p, expr, level) ==
    IF ~(\E typ \in BinaryLevel[level].types : check(p, typ)) THEN Ok(expr, p)
    ELSE Try(operand_of(parser_advance(p), level), LAMBDA right :
             binary_loop(right.p,
                         IF BinaryLevel[level].logical
                         THEN Logical(expr, parser_peek(p), right.node)
                         ELSE Binary(expr, parser_peek(p), right.node),
                         level))

\* the loop of Parser::finish_call; the node is the list of arguments
arguments(p, list) ==
    Try(expression(IF Len(list) >= ARG_LIMIT
                   THEN error(p, parser_peek(p),
                              "Can't have more than 255 arguments.")
                   ELSE p),
        LAMBDA argument :
            IF check(argument.p, "Comma")
            THEN arguments(parser_advance(argument.p),
                           Append(list, argument.node))
            ELSE Ok(Append(list, argument.node), argument.p))

finish_call(p, callee) ==
    Try(IF ~check(p, "RightParen") THEN arguments(p, <<>>) ELSE Ok(<<>>, p),
        LAMBDA args :
    Try(consume(args.p, "RightParen", "Expect ')' after arguments."),
        LAMBDA paren :
    Ok(Call(callee, paren.node, args.node), paren.p)))

\* the loop of Parser::call
call_loop(p, expr) ==
    IF ~check(p, "LeftParen") THEN Ok(expr, p)
    ELSE Try(finish_call(parser_advance(p), expr), LAMBDA called :
             call_loop(called.p, called.node))

call(p) == Try(primary(p), LAMBDA callee : call_loop(callee.p, callee.node))

unary(p) ==
    IF check(p, "Bang") \/ check(p, "Minus")
    THEN Try(unary(parser_advance(p)), LAMBDA right :
             Ok(Unary(parser_peek(p), right.node), right.p))
    ELSE call(p)

\* Parser::primary after `(`
grouping(p) ==
    Try(expression(p), LAMBDA inner :
    Try(consume(inner.p, "RightParen", "Expect ')' after expression."),
        LAMBDA paren :
    Ok(Grouping(inner.node), paren.p)))

primary(p) ==
    IF check(p, "False") THEN Ok(Literal(LitFalse), parser_advance(p))
    ELSE IF check(p, "True") THEN Ok(Literal(LitTrue), parser_advance(p))
    ELSE IF check(p, "Nil") THEN Ok(Literal(LitNull), parser_advance(p))
    ELSE IF check(p, "Number") \/ check(p, "String")
    THEN Ok(Literal(parser_peek(p).literal), parser_advance(p))
    ELSE IF check(p, "Identifier")
    THEN Ok(Variable(parser_peek(p), p.current + 1), parser_advance(p))
    ELSE IF check(p, "LeftParen") THEN grouping(parser_advance(p))
    ELSE Err(error(p, parser_peek(p), "Expect expression."))

RECURSIVE declaration(_)
RECURSIVE statement(_)
RECURSIVE block_loop(_, _)

\* the loop of Parser::function over the parameters
RECURSIVE parameters(_, _)
parameters(p, params) ==
    Try(consume(IF Len(params) >= ARG_LIMIT
                THEN error(p, parser_peek(p),
                           "Can't have more than 255 parameters.")
                ELSE p,
                "Identifier", "Expect parameter name."),
        LAMBDA param :
            IF check(param.p, "Comma")
            THEN parameters(parser_advance(param.p),
                            Append(params, param.node))
            ELSE Ok(Append(params, param.node), param.p))

\* the loop of Parser::block; the node is the list of statements
block_loop(p, list) ==
    IF ~check(p, "RightBrace") /\ ~parser_at_end(p)
    THEN Try(declaration(p), LAMBDA d :
             block_loop(d.p, Append(list, d.node)))
    ELSE Ok(list, p)

block(p) ==
    Try(block_loop(p, <<>>), LAMBDA body :
    Try(consume(body.p, "RightBrace", "Expect '}' after block."),
        LAMBDA close :
    Ok(body.node, close.p)))

function(p, kind) ==
    Try(consume(p, "Identifier", "Expect " \o kind \o " name."),
        LAMBDA name :
    Try(consume(name.p, "LeftParen", "Expect '(' after " \o kind \o " name."),
        LAMBDA open :
    Try(IF ~check(open.p, "RightParen") THEN parameters(open.p, <<>>)
        ELSE Ok(<<>>, open.p),
        LAMBDA params :
    Try(consume(params.p, "RightParen", "Expect ')' after parameters."),
        LAMBDA close :
    Try(consume(close.p, "LeftBrace",
                "Expect '{' before " \o kind \o " body."),
        LAMBDA brace :
    Try(block(brace.p), LAMBDA body :
    Ok(Function(name.node, params.node, body.node), body.p)))))))

var_declaration(p) ==
    Try(consume(p, "Identifier", "Expect variable name."), LAMBDA name :
    Try(IF check(name.p, "Equal") THEN expression(parser_advance(name.p))
        ELSE Ok(ExprNull, name.p),
        LAMBDA initializer :
    Try(consume(initializer.p, "Semicolon",
                "Expect ';' after variable declaration."),
        LAMBDA semi :
    Ok(Var(name.node, initializer.node), semi.p))))

\* p is the parser after the keyword, which is its previous token
return_statement(p) ==
    Try(IF ~check(p, "Semicolon") THEN expression(p) ELSE Ok(ExprNull, p),
        LAMBDA value :
    Try(consume(value.p, "Semicolon", "Expect ';' after return value."),
        LAMBDA semi :
    Ok(Return(previous(p), value.node), semi.p)))

print_statement(p) ==
    Try(expression(p), LAMBDA value :
    Try(consume(value.p, "Semicolon", "Expect ';' after value."),
        LAMBDA semi :
    Ok(StmtPrint(value.node), semi.p)))

expression_statement(p) ==
    Try(expression(p), LAMBDA value :
    Try(consume(value.p, "Semicolon", "Expect ';' after expression."),
        LAMBDA semi :
    Ok(Expression(value.node), semi.p)))

\* the statement Parser::for_statement builds of its parts
for_loop(initializer, condition, increment, body) ==
    LET stepped == IF ~is_null(increment) THEN
                       Block(<<body, Expression(increment)>>)
                   ELSE body
        looped == While(IF is_null(condition) THEN Literal(LitTrue)
                        ELSE condition,
                        stepped)
    IN  IF ~is_null(initializer) THEN Block(<<initializer, looped>>)
        ELSE looped

for_statement(p) ==
    Try(consume(p, "LeftParen", "Expect '(' after 'for'."), LAMBDA open :
    Try(IF check(open.p, "Semicolon")
        THEN Ok(StmtNull, parser_advance(open.p))
        ELSE IF check(open.p, "Var")
        THEN var_declaration(parser_advance(open.p))
        ELSE expression_statement(open.p),
        LAMBDA initializer :
    Try(IF ~check(initializer.p, "Semicolon") THEN expression(initializer.p)
        ELSE Ok(ExprNull, initializer.p),
        LAMBDA condition :
    Try(consume(condition.p, "Semicolon",
                "Expect ';' after loop condition."),
        LAMBDA semi :
    Try(IF ~check(semi.p, "RightParen") THEN expression(semi.p)
        ELSE Ok(ExprNull, semi.p),
        LAMBDA increment :
    Try(consume(increment.p, "RightParen", "Expect ')' after for clauses."),
        LAMBDA close :
    Try(statement(close.p), LAMBDA body :
    Ok(for_loop(initializer.node, condition.node, increment.node,
                body.node),
       body.p))))))))

while_statement(p) ==
    Try(consume(p, "LeftParen", "Expect '(' after 'while'."), LAMBDA open :
    Try(expression(open.p), LAMBDA condition :
    Try(consume(condition.p, "RightParen",
                "Expect ')' after while condition."),
        LAMBDA close :
    Try(statement(close.p), LAMBDA body :
    Ok(While(condition.node, body.node), body.p)))))

if_statement(p) ==
    Try(consume(p, "LeftParen", "Expect '(' after 'if'."), LAMBDA open :
    Try(expression(open.p), LAMBDA condition :
    Try(consume(condition.p, "RightParen", "Expect ')' after if condition."),
        LAMBDA close :
    Try(statement(close.p), LAMBDA then_branch :
    Try(IF check(then_branch.p, "Else")
        THEN statement(parser_advance(then_branch.p))
        ELSE Ok(StmtNull, then_branch.p),
        LAMBDA else_branch :
    Ok(If(condition.node, then_branch.node, else_branch.node),
       else_branch.p))))))

statement(p) ==
    IF check(p, "For") THEN for_statement(parser_advance(p))
    ELSE IF check(p, "If") THEN if_statement(parser_advance(p))
    ELSE IF check(p, "Print") THEN print_statement(parser_advance(p))
    ELSE IF check(p, "Return") THEN return_statement(parser_advance(p))
    ELSE IF check(p, "While") THEN while_statement(parser_advance(p))
    ELSE IF check(p, "LeftBrace")
    THEN Try(block(parser_advance(p)), LAMBDA body :
             Ok(Block(body.node), body.p))
    ELSE expression_statement(p)

\* the branches of Parser::declaration
declared(p) ==
    IF check(p, "Fun") THEN function(parser_advance(p), "function")
    ELSE IF check(p, "Var") THEN var_declaration(parser_advance(p))
    ELSE statement(p)

\* the end of Parser::declaration: an Err is returned after synchronize
synchronized(r) == IF ~r.ok THEN Err(synchronize(r.p)) ELSE r

declaration(p) == synchronized(declared(p))

\* a turn of the loop of Parser::parse: declaration, and its statement
\* pushed when it is Ok
parse_turn(p) ==
    LET r == declaration(p)
    IN  [r.p EXCEPT !.statements = IF r.ok THEN Append(@, r.node) ELSE @]

\* Parser::parse: the statements it returns for a token list
RECURSIVE parse_loop(_)
parse_loop(p) == IF parser_at_end(p) THEN p ELSE parse_loop(parse_turn(p))

parse(tokens) == parse_loop(LoxParser(tokens)).statements

\* Parser::parse: a turn of its loop and what it reports
ParseDeclaration ==
    /\ lox_parser.pc = "parse"
    /\ ~parser_at_end(lox_parser)
    /\ LET turned == parse_turn([lox_parser EXCEPT !.errors = <<>>])
       IN  /\ lox_parser' = [turned EXCEPT !.errors = <<>>]
           /\ had_error' = (had_error \/ turned.errors # <<>>)
           /\ errout' = ReportAll(errout, turned.errors)
    /\ UNCHANGED <<mode, session, input, dpc, phases, statements,
                   had_runtime_error, exit_code, globals, resolverVars,
                   heap, kont, ret, status, sig, out, lox_scanner, cloxVars>>

\* Parser::parse: the loop is over and the statements are returned
ParseEnd ==
    /\ lox_parser.pc = "parse"
    /\ parser_at_end(lox_parser)
    /\ lox_parser' = [lox_parser EXCEPT !.pc = "done"]
    /\ UNCHANGED <<mode, session, input, dpc, phases, statements, had_error,
                   had_runtime_error, exit_code, globals, resolverVars,
                   heap, kont, ret, status, sig, out, errout, lox_scanner,
                   cloxVars>>

\* no Parser has been made
NoParser == [LoxParser(<<>>) EXCEPT !.pc = "idle"]

\* Lox::run is not in its scan or its parse
IdleFront ==
    /\ lox_scanner = NoScanner
    /\ lox_parser = NoParser

-----------------------------------------------------------------------------
(* The inputs of the model.  Every token is on line 1 unless said          *)
(* otherwise; the last argument of V and Set is the occurrence's place.    *)

Id(x) == Ident(x, 1)
V(x, at) == Variable(Id(x), at)
Set(x, value, at) == Assign(Id(x), value, at)
N(n) == Literal(LitNumber(n))
S(x) == Literal(LitString(x))
TPlus == Token("Plus", "+", 1)
TMinus == Token("Minus", "-", 1)
TStar == Token("Star", "*", 1)
TGreater == Token("Greater", ">", 1)
TLess == Token("Less", "<", 1)
TEqualEqual == Token("EqualEqual", "==", 1)
TBang == Token("Bang", "!", 1)
TOr == Token("Or", "or", 1)
TAnd == Token("And", "and", 1)
TParen == Token("RightParen", ")", 1)
TReturn == Token("Return", "return", 1)
Prog(stmts) == Source(<<>>, <<>>, stmts)

\* fun make(n){ fun inc(){ n = n + 1; return n; } return inc; }
\* var c = make(10); print c(); print c();
CounterProgram ==
    Prog(<<Function(Id("make"), <<Id("n")>>,
               <<Function(Id("inc"), <<>>,
                     <<Expression(Set("n", Binary(V("n", 1), TPlus, N(1)), 2)),
                       Return(TReturn, V("n", 3))>>),
                 Return(TReturn, V("inc", 4))>>),
           Var(Id("c"), Call(V("make", 5), TParen, <<N(10)>>)),
           StmtPrint(Call(V("c", 6), TParen, <<>>)),
           StmtPrint(Call(V("c", 7), TParen, <<>>))>>)

\* fun f(n) { if (n > 0) { return f(n - 1); } return 0; } print f(1);
RecursionProgram ==
    Prog(<<Function(Id("f"), <<Id("n")>>,
               <<If(Binary(V("n", 1), TGreater, N(0)),
                    Block(<<Return(TReturn,
                                Call(V("f", 2), TParen,
                                     <<Binary(V("n", 3), TMinus, N(1))>>))>>),
                    StmtNull),
                 Return(TReturn, N(0))>>),
           StmtPrint(Call(V("f", 4), TParen, <<N(1)>>))>>)

\* fun g() { return x; } var x = 1; print g();
LaterGlobalProgram ==
    Prog(<<Function(Id("g"), <<>>, <<Return(TReturn, V("x", 1))>>),
           Var(Id("x"), N(1)),
           StmtPrint(Call(V("g", 2), TParen, <<>>))>>)

\* var a = 1; { var a = 2; print a; } print a;
ShadowProgram ==
    Prog(<<Var(Id("a"), N(1)),
           Block(<<Var(Id("a"), N(2)), StmtPrint(V("a", 1))>>),
           StmtPrint(V("a", 2))>>)

\* var i = 0; while (i < 3) { print i; i = i + 1; }
WhileProgram ==
    Prog(<<Var(Id("i"), N(0)),
           While(Binary(V("i", 1), TLess, N(3)),
                 Block(<<StmtPrint(V("i", 2)),
                         Expression(Set("i", Binary(V("i", 3), TPlus, N(1)),
                                        4))>>))>>)

\* fun f(a) { print a; } f(1);
ParamProgram ==
    Prog(<<Function(Id("f"), <<Id("a")>>, <<StmtPrint(V("a", 1))>>),
           Expression(Call(V("f", 2), TParen, <<N(1)>>))>>)

\* print 1; return; print 2;
TopReturnProgram ==
    Prog(<<StmtPrint(N(1)), Return(TReturn, ExprNull), StmtPrint(N(2))>>)

\* return 1;
TopReturnValueProgram == Prog(<<Return(TReturn, N(1))>>)

\* fun f(a) { print a; } f(); f(1, 2); clock(1); f(3);
ArityProgram ==
    Prog(<<Function(Id("f"), <<Id("a")>>, <<StmtPrint(V("a", 1))>>),
           Expression(Call(V("f", 2), TParen, <<>>)),
           Expression(Call(V("f", 3), TParen, <<N(1), N(2)>>)),
           Expression(Call(V("clock", 4), TParen, <<N(1)>>)),
           Expression(Call(V("f", 5), TParen, <<N(3)>>))>>)

\* { var a; { print -"s"; } print 1; } print 2;
ErrorInBlockProgram ==
    Prog(<<Block(<<Var(Id("a"), ExprNull),
                   Block(<<StmtPrint(Unary(TMinus, S("s")))>>),
                   StmtPrint(N(1))>>),
           StmtPrint(N(2))>>)

\* var a = 1; a();
NotCallableProgram ==
    Prog(<<Var(Id("a"), N(1)), Expression(Call(V("a", 1), TParen, <<>>))>>)

\* x = 1; print 3;
AssignUndefinedProgram ==
    Prog(<<Expression(Set("x", N(1), 1)), StmtPrint(N(3))>>)

\* print nil or 1; print (1 and 2); print !(1 == 1);
LogicalProgram ==
    Prog(<<StmtPrint(Logical(Literal(LitNull), TOr, N(1))),
           StmtPrint(Grouping(Logical(N(1), TAnd, N(2)))),
           StmtPrint(Unary(TBang,
                           Grouping(Binary(N(1), TEqualEqual, N(1)))))>>)

\* var a = 0; print 1 or (a = 5); print nil and (a = 6); print a;
ShortCircuitProgram ==
    Prog(<<Var(Id("a"), N(0)),
           StmtPrint(Logical(N(1), TOr, Grouping(Set("a", N(5), 1)))),
           StmtPrint(Logical(Literal(LitNull), TAnd,
                             Grouping(Set("a", N(6), 2)))),
           StmtPrint(V("a", 3))>>)

\* fun f() {} print f == f; print clock == clock; print 1 == "1";
EqualityProgram ==
    Prog(<<Function(Id("f"), <<>>, <<>>),
           StmtPrint(Binary(V("f", 1), TEqualEqual, V("f", 2))),
           StmtPrint(Binary(V("clock", 3), TEqualEqual, V("clock", 4))),
           StmtPrint(Binary(N(1), TEqualEqual, S("1")))>>)

\* var a = 1; a = a; print a;
SelfAssignProgram ==
    Prog(<<Var(Id("a"), N(1)), Expression(Set("a", V("a", 1), 2)),
           StmtPrint(V("a", 3))>>)

\* print clock() > 0;
ClockProgram ==
    Prog(<<StmtPrint(Binary(Call(V("clock", 1), TParen, <<>>), TGreater,
                            N(0)))>>)

\* print 1 + 2 * 3; print "foo" + "bar"; print -true;
ArithmeticProgram ==
    Prog(<<StmtPrint(Binary(N(1), TPlus, Binary(N(2), TStar, N(3)))),
           StmtPrint(Binary(S("foo"), TPlus, S("bar"))),
           StmtPrint(Unary(TMinus, Literal(LitTrue)))>>)

\* if (false) print 1; else print 2; if (nil) print 3;
IfElseProgram ==
    Prog(<<If(Literal(LitFalse), StmtPrint(N(1)), StmtPrint(N(2))),
           If(Literal(LitNull), StmtPrint(N(3)), StmtNull)>>)

\* fun f() { { return 1 + nil; } } f(); print 4;
ErrorInCallProgram ==
    Prog(<<Function(Id("f"), <<>>,
               <<Block(<<Return(TReturn,
                                Binary(N(1), TPlus, Literal(LitNull)))>>)>>),
           Expression(Call(V("f", 1), TParen, <<>>)),
           StmtPrint(N(4))>>)

\* var a = 1; { var a = 2; { a = 3; print a; } print a; } print a;
NestedAssignProgram ==
    Prog(<<Var(Id("a"), N(1)),
           Block(<<Var(Id("a"), N(2)),
                   Block(<<Expression(Set("a", N(3), 1)),
                           StmtPrint(V("a", 2))>>),
                   StmtPrint(V("a", 3))>>),
           StmtPrint(V("a", 4))>>)

\* { var a = 1; print a; { print a; } }
SameLineProgram ==
    Prog(<<Block(<<Var(Id("a"), N(1)), StmtPrint(V("a", 1)),
                   Block(<<StmtPrint(V("a", 2))>>)>>)>>)

\* print 1; @      (the scanner reports the unexpected character)
ScanErrorSource ==
    Source(<<[line |-> 1, wher |-> "", message |-> "Unexpected character."]>>,
           <<>>, <<StmtPrint(N(1))>>)

\* print 1; print ;      (the parser reports and drops the second statement)
ParseErrorSource ==
    Source(<<>>,
           <<[line |-> 1, wher |-> " at ';'",
              message |-> "Expect expression."]>>,
           <<StmtPrint(N(1))>>)

\* The files Lox::run_file is given
Files ==
    {CounterProgram, RecursionProgram, LaterGlobalProgram, ShadowProgram,
     WhileProgram, ParamProgram, TopReturnProgram, TopReturnValueProgram,
     ArityProgram, ErrorInBlockProgram, NotCallableProgram,
     AssignUndefinedProgram, LogicalProgram, SelfAssignProgram, ClockProgram,
     ArithmeticProgram, IfElseProgram, ErrorInCallProgram,
     NestedAssignProgram, SameLineProgram, ShortCircuitProgram,
     EqualityProgram,
     ScanErrorSource, ParseErrorSource}

\* The lines a prompt session is made of
PromptLines ==
    {Prog(<<Var(Id("a"), N(1))>>),
     Prog(<<Expression(Set("a", Binary(V("a", 1), TPlus, N(1)), 2))>>),
     Prog(<<StmtPrint(V("a", 1))>>),
     Prog(<<Expression(Set("a", Binary(V("a", 1), TPlus, N(1)), 2)),
            StmtPrint(V("a", 3))>>),
     ParseErrorSource}

RECURSIVE SeqsUpTo(_, _)
SeqsUpTo(set, n) ==
    IF n = 0 THEN {<<>>}
    ELSE LET shorter == SeqsUpTo(set, n - 1)
         IN  shorter \cup {Append(q, x) : q \in shorter, x \in set}

-----------------------------------------------------------------------------
(* The specification of the driver as lib.rs has it. *)

\* Lox::new: the global frame holds clock
InitInterpreter ==
    /\ heap = <<ClockBuiltin>>
    /\ globals = <<("clock" :> 1)>>
    /\ locals = <<>>
    /\ scopes = <<>>
    /\ current_function = "None"
    /\ to_resolve = <<>>
    /\ resolved = {}
    /\ kont = <<>>
    /\ ret = Fresh(Nil)
    /\ status = "run"
    /\ sig = NoSignal
    /\ out = <<>>
    /\ errout = <<>>

Init ==
    /\ \/ /\ mode = "file"
          /\ \E f \in Files : session = <<f>>
       \/ /\ mode = "prompt"
          /\ session \in SeqsUpTo(PromptLines, MaxLines)
    /\ input = NoInput
    /\ dpc = "start"
    /\ phases = {}
    /\ statements = <<>>
    /\ had_error = FALSE
    /\ had_runtime_error = FALSE
    /\ exit_code = -1
    /\ InitInterpreter
    /\ IdleFront
    /\ IdleClox

Execute ==
    \/ ExecExpression \/ ExecPrint \/ PrintValue \/ ExecVar \/ DefineVar
    \/ ExecBlock \/ BlockNext \/ BlockEnd \/ BlockErr \/ ExecIf \/ IfBranch
    \/ ExecWhile \/ WhileTest \/ ExecFunction \/ ExecReturn \/ DoReturn
    \/ ExecuteReturn \/ Propagate

Evaluate ==
    \/ EvalLiteral \/ EvalVariable \/ EvalAssign \/ AssignValue
    \/ EvalBinary \/ BinaryRight \/ BinaryOp \/ EvalGrouping \/ EvalUnary
    \/ UnaryOp \/ EvalLogical \/ LogicalTest \/ EvalCall \/ CallCallee
    \/ CallArg \/ CallNotCallable \/ CallArityError \/ CallFunction
    \/ CallBuiltin \/ CallReturn \/ CallCatch

Driver ==
    \/ RunFile \/ ReadLine \/ EndOfInput \/ Scan \/ Parse \/ SkipOnError
    \/ StartInterpret \/ InterpretNext \/ InterpretError \/ FileExit
    \/ PromptNext

Next == Driver \/ Execute \/ Evaluate

Spec == Init /\ [][Next]_vars

-----------------------------------------------------------------------------
(* The pipeline with the resolver in it: Resolver::resolve over the parsed *)
(* statements and then Lox::interpret, the two calls of lib.rs 127-130     *)
(* taken together.                                                         *)

\* The sources that scan and parse without an error
Programs == {f \in Files : f.scan_errors = <<>> /\ f.parse_errors = <<>>}

\* Resolver::resolve, the loop: the next statement is resolved
ResolveNext ==
    /\ dpc = "resolve"
    /\ to_resolve # <<>>
    /\ LET rs == [ResolverNew(locals, had_error, errout) EXCEPT
                      !.scopes = scopes,
                      !.current_function = current_function,
                      !.resolved = resolved]
           r1 == resolve_stmt(rs, Head(to_resolve))
       IN  /\ scopes' = r1.scopes
           /\ current_function' = r1.current_function
           /\ locals' = r1.locals
           /\ resolved' = r1.resolved
           /\ had_error' = r1.had_error
           /\ errout' = r1.errout
    /\ to_resolve' = Tail(to_resolve)
    /\ UNCHANGED <<mode, session, input, dpc, phases, statements,
                   had_runtime_error, exit_code, globals, heap, kont, ret,
                   status, sig, out,
                   cloxVars, frontVars>>

\* Resolver::resolve returns and Lox::interpret is called
ResolveEnd ==
    /\ dpc = "resolve"
    /\ to_resolve = <<>>
    /\ dpc' = "interpret"
    /\ phases' = phases \cup {"resolve"}
    /\ UNCHANGED <<mode, session, input, statements, had_error,
                   had_runtime_error, exit_code, globals, resolverVars,
                   cloxVars, frontVars, heap,
                   kont, ret, status, sig, out, errout>>

InitResolved ==
    /\ mode = "resolved"
    /\ session = <<>>
    /\ input \in Programs
    /\ dpc = "resolve"
    /\ phases = {"scan", "parse"}
    /\ statements = input.stmts
    /\ had_error = FALSE
    /\ had_runtime_error = FALSE
    /\ exit_code = -1
    /\ heap = <<ClockBuiltin>>
    /\ globals = <<("clock" :> 1)>>
    /\ locals = <<>>
    /\ scopes = <<>>
    /\ current_function = "None"
    /\ to_resolve = input.stmts
    /\ resolved = {}
    /\ kont = <<>>
    /\ ret = Fresh(Nil)
    /\ status = "run"
    /\ sig = NoSignal
    /\ out = <<>>
    /\ errout = <<>>
    /\ IdleFront
    /\ IdleClox

NextResolved ==
    \/ ResolveNext \/ ResolveEnd \/ InterpretNext \/ InterpretError
    \/ Execute \/ Evaluate

SpecResolved == InitResolved /\ [][NextResolved]_vars

-----------------------------------------------------------------------------
(* clox: Vm::interpret over the sources of a session (main.rs: one source  *)
(* for a file, one per line at the prompt).  A source is written as its    *)
(* lexemes.                                                                *)

\* one more literal than a byte can index
ManyLiterals == U8 + 1

SmallSources ==
    { SourceOf(<<Num(1), Plus, Num(2)>>, 0),
      SourceOf(<<LParen, Num(1), Plus, Num(2), RParen, Star, Num(3), Minus,
                 Num(4), Slash, Num(2)>>, 1),
      SourceOf(<<Minus, LParen, Num(1), Plus, Num(2), RParen>>, 0),
      SourceOf(<<Minus, Minus, Num(7)>>, 0),
      SourceOf(<<>>, 0),
      SourceOf(<<Num(1), Plus>>, 0),
      SourceOf(<<LParen, Num(1)>>, 0),
      SourceOf(<<Num(1), Blank, Num(2)>>, 0),
      SourceOf(<<RParen, Plus, RParen>>, 0),
      SourceOf(<<Star, Num(1), Blank, Num(2)>>, 0),
      SourceOf(<<BadChar>>, 0),
      SourceOf(<<Num(1), Plus, BadChar, Num(2)>>, 20),
      SourceOf(<<BadChar, BadChar, Num(2)>>, 20) }

\* the sources among them that are expressions
WellFormedSources ==
    { SourceOf(<<Num(1), Plus, Num(2)>>, 0),
      SourceOf(<<Minus, LParen, Num(1), Plus, Num(2), RParen>>, 0),
      SourceOf(<<Minus, Minus, Num(7)>>, 0) }

BigSources ==
    { SumOf(U8), SumOf(ManyLiterals), NestedOf(U8), NestedOf(ManyLiterals) }

\* Arithmetic expressions as trees: a literal, a negation, a binary
\* operation, a parenthesised expression
ELit(n) == [e |-> "lit", n |-> n]
ENeg(operand) == [e |-> "neg", operand |-> operand]
EBin(op, left, right) ==
    [e |-> "bin", op |-> op, left |-> left, right |-> right]
EGroup(inner) == [e |-> "group", inner |-> inner]

\* how tightly the top of a tree binds: + and - loosest, then * and /, then
\* unary minus, then literals and parentheses
Binding(t) ==
    CASE t.e = "bin" -> IF t.op \in {Plus, Minus} THEN 1 ELSE 2
      [] t.e = "neg" -> 3
      [] OTHER -> 4

\* the value of a tree, each operation applied to the values of its operands
RECURSIVE TreeValue(_)
TreeValue(t) ==
    CASE t.e = "lit" -> t.n
      [] t.e = "neg" -> 0 - TreeValue(t.operand)
      [] t.e = "group" -> TreeValue(t.inner)
      [] t.e = "bin" ->
            LET a == TreeValue(t.left)
                b == TreeValue(t.right)
            IN  CASE t.op = Plus -> a + b
                  [] t.op = Minus -> a - b
                  [] t.op = Star -> a * b
                  [] t.op = Slash -> Quotient(a, b)

\* every quotient of the tree is whole
RECURSIVE WholeQuotients(_)
WholeQuotients(t) ==
    CASE t.e = "lit" -> TRUE
      [] t.e = "neg" -> WholeQuotients(t.operand)
      [] t.e = "group" -> WholeQuotients(t.inner)
      [] t.e = "bin" ->
            /\ WholeQuotients(t.left)
            /\ WholeQuotients(t.right)
            /\ t.op = Slash =>
                  /\ TreeValue(t.right) # 0
                  /\ Abs(TreeValue(t.left)) % Abs(TreeValue(t.right)) = 0

\* the text of a tree: an operand is parenthesised where it binds more
\* loosely than its operator, and a right operand also where it binds
\* equally
RECURSIVE TreeText(_)
TreeText(t) ==
    LET InParens(u, needed) ==
            IF needed THEN <<LParen>> \o TreeText(u) \o <<RParen>>
            ELSE TreeText(u)
    IN  CASE t.e = "lit" -> <<Num(t.n)>>
          [] t.e = "neg" ->
                <<Minus>> \o InParens(t.operand, Binding(t.operand) < 3)
          [] t.e = "group" -> <<LParen>> \o TreeText(t.inner) \o <<RParen>>
          [] t.e = "bin" ->
                InParens(t.left, Binding(t.left) < Binding(t))
                    \o <<t.op>>
                    \o InParens(t.right, Binding(t.right) <= Binding(t))

\* the source of a tree; the tree stays with it
TreeSource(t) ==
    [shape |-> "text", n |-> 0, chars |-> TreeText(t), pad |-> 0,
     tree |-> t]

Operators == {Plus, Minus, Star, Slash}
Literals == {ELit(1), ELit(2), ELit(3)}
Pairs == {EBin(o, a, b) : o \in Operators, a \in Literals, b \in Literals}

\* the trees of the model: three literals under two operators in both
\* shapes, negations of and in binary operations, parentheses that are
\* not needed, and four literals under three operators
Trees ==
    {t \in Literals \cup Pairs
             \cup {EBin(o, p, c) : o \in Operators, p \in Pairs,
                                   c \in Literals}
             \cup {EBin(o, a, p) : o \in Operators, a \in Literals,
                                   p \in Pairs}
             \cup {ENeg(p) : p \in Pairs}
             \cup {ENeg(ENeg(a)) : a \in Literals}
             \cup {EBin(o, ENeg(a), b) : o \in Operators, a \in {ELit(2)},
                                         b \in Literals}
             \cup {EBin(o, a, ENeg(b)) : o \in Operators, a \in {ELit(2)},
                                         b \in Literals}
             \cup {EBin(o, EGroup(p), ELit(2)) : o \in Operators,
                                                 p \in Pairs}
             \cup {EBin(o, EBin(p, ELit(3), ELit(1)),
                           EBin(q, ELit(2), ELit(1))) :
                      o \in Operators, p \in Operators, q \in Operators} :
        WholeQuotients(t)}

\* one source (a file) or two (two lines at the prompt)
\* the chars of a word
Chars(word) ==
    CASE word = "and" -> <<"a", "n", "d">>
      [] word = "class" -> <<"c", "l", "a", "s", "s">>
      [] word = "else" -> <<"e", "l", "s", "e">>
      [] word = "false" -> <<"f", "a", "l", "s", "e">>
      [] word = "for" -> <<"f", "o", "r">>
      [] word = "fun" -> <<"f", "u", "n">>
      [] word = "if" -> <<"i", "f">>
      [] word = "nil" -> <<"n", "i", "l">>
      [] word = "or" -> <<"o", "r">>
      [] word = "print" -> <<"p", "r", "i", "n", "t">>
      [] word = "return" -> <<"r", "e", "t", "u", "r", "n">>
      [] word = "super" -> <<"s", "u", "p", "e", "r">>
      [] word = "this" -> <<"t", "h", "i", "s">>
      [] word = "true" -> <<"t", "r", "u", "e">>
      [] word = "var" -> <<"v", "a", "r">>
      [] word = "while" -> <<"w", "h", "i", "l", "e">>

\* Sources that try the scanner: every keyword, alone, cut short by a char
\* and extended by one; identifiers; a last char '/', a last char '.'
\* after digits, a fraction, a comment; strings closed and not, short and
\* long.
ScannerSources ==
    {SourceOf(Chars(w), 0) : w \in DOMAIN KEYWORDS}
        \cup {SourceOf(SubSeq(Chars(w), 1, Len(Chars(w)) - 1), 0) :
                w \in DOMAIN KEYWORDS}
        \cup {SourceOf(Chars(w) \o <<"s">>, 0) : w \in DOMAIN KEYWORDS}
        \cup {SourceOf(<<Num(1), Plus>> \o Chars(w), 0) :
                w \in {"nil", "true"}}
        \cup { SourceOf(<<"x">>, 0),
               SourceOf(<<"_", "f", Num(1)>>, 0),
               SourceOf(<<Num(1), Slash>>, 0),
               SourceOf(<<Slash>>, 0),
               SourceOf(<<Num(1), Slash, Blank>>, 0),
               SourceOf(<<Num(1), ".">>, 0),
               SourceOf(<<Num(1), ".", Blank>>, 0),
               SourceOf(<<Num(2), ".", Num(0)>>, 0),
               SourceOf(<<Num(1), Slash, Slash, "c">>, 0),
               SourceOf(<<Num(1), Slash, Slash, "c", Newline, Plus, Num(2)>>,
                        0),
               SourceOf(<<"\"", "a", "\"">>, 0),
               SourceOf(<<"\"", "a">>, 0),
               SourceOf(<<"\"", "a">>, 18),
               SourceOf(<<Num(1), Plus, "\"", Newline, "a">>, 20),
               SourceOf(<<BadChar>>, 19),
               SourceOf(<<Num(1), Plus, BadChar>>, 0) }

Sessions ==
    {<<s>> : s \in SmallSources \cup BigSources \cup ScannerSources}
        \cup {<<TreeSource(t)>> : t \in Trees}
        \cup {<<s, t>> : s \in SmallSources, t \in SmallSources}

IdleJlox ==
    /\ mode = "clox"
    /\ session = <<>>
    /\ input = NoInput
    /\ dpc = "start"
    /\ phases = {}
    /\ statements = <<>>
    /\ had_error = FALSE
    /\ had_runtime_error = FALSE
    /\ exit_code = -1
    /\ InitInterpreter
    /\ IdleFront

\* Vm::new and the build: overflow checks are on in a debug build and off
\* in a release build
InitClox ==
    /\ IdleJlox
    /\ overflow_checks \in BOOLEAN
    /\ vm_session \in Sessions
    /\ source = NoSource
    /\ scanner = ScannerNew
    /\ parser = ParserDefault
    /\ chunk = ChunkNew
    /\ ckont = <<>>
    /\ ip = 0
    /\ stack = StackNew
    /\ stack_top = 0
    /\ vpc = "idle"
    /\ result = "None"
    /\ vout = <<>>
    /\ verr = <<>>

Compile ==
    \/ CompileBegin \/ Advance \/ ScanToken \/ Expression_ \/ ParsePrecedence
    \/ PrefixNone \/ PrefixNumber \/ PrefixGrouping \/ PrefixUnary \/ Infix
    \/ Binary_ \/ EmitOperator \/ Consume \/ CompileEnd

\* the arms of run a chunk of this compiler reaches
NextClox == Compile \/ OpConstant \/ OpBinary \/ OpNegate \/ OpReturn

SpecClox == InitClox /\ [][NextClox]_vars

-----------------------------------------------------------------------------
(* clox: Vm::run over chunks written with write_chunk and add_constant,    *)
(* every OpCode among them.                                                *)

Op(byte) == [op |-> byte, value |-> Nil]
Const(value) == [op |-> OpCode.Constant, value |-> value]

\* the chunk the items write, every byte on the line `line`
RECURSIVE Assemble(_, _, _)
Assemble(c, items, line) ==
    IF items = <<>> THEN c
    ELSE LET item == Head(items)
         IN  IF item.op = OpCode.Constant
             THEN LET k == add_constant(c, item.value, FALSE)
                  IN  Assemble(write_chunk(write_chunk(k.chunk,
                                               OpCode.Constant, line),
                                           k.index, line),
                               Tail(items), line)
             ELSE Assemble(write_chunk(c, item.op, line), Tail(items), line)

\* the chunk of n write_chunk(Nil, 1): n pushes and no pop
PushesOf(n) ==
    [ChunkNew EXCEPT !.code = [i \in 1 .. n |-> OpCode.Nil],
                     !.lines = [i \in 1 .. n |-> 1]]

Operands == {Op(OpCode.Nil), Op(OpCode.True), Op(OpCode.False),
             Const(Number(6)), Const(Number(0 - 6))}

Chunks ==
    {Assemble(ChunkNew, <<Const(Number(9)), a, b, Op(o), Op(OpCode.Return)>>,
              2) :
        a \in Operands, b \in Operands,
        o \in BinaryOps \cup {OpCode.Equal}}
    \cup {Assemble(ChunkNew, <<a, Op(o), Op(OpCode.Return)>>, 1) :
            a \in Operands, o \in BinaryOps \cup {OpCode.Negate, OpCode.Not}}
    \cup {Assemble(ChunkNew, items, 1) :
            items \in {<<>>, <<Op(OpCode.Return)>>, <<Op(OpCode.Return + 1)>>,
                       <<Op(OpCode.Equal)>>, <<Op(OpCode.Not)>>,
                       <<Op(OpCode.Negate)>>, <<Op(OpCode.Add)>>,
                       <<Op(OpCode.Nil)>>}}
    \cup {write_chunk(ChunkNew, OpCode.Constant, 1),
          write_chunk(write_chunk(ChunkNew, OpCode.Constant, 1), 0, 1),
          PushesOf(STACK_MAX + 1)}

InitVm ==
    /\ IdleJlox
    /\ overflow_checks \in BOOLEAN
    /\ vm_session = <<>>
    /\ source = NoSource
    /\ scanner = ScannerNew
    /\ parser = ParserDefault
    /\ chunk \in Chunks
    /\ ckont = <<>>
    /\ ip = 0
    /\ stack = StackNew
    /\ stack_top = 0
    /\ vpc = "run"
    /\ result = "None"
    /\ vout = <<>>
    /\ verr = <<>>

NextVm ==
    \/ ReadPastEnd \/ OpConstant \/ OpNil \/ OpTrue \/ OpFalse \/ OpEqual
    \/ OpBinary \/ OpNot \/ OpNegate \/ OpReturn \/ OpUnknown

SpecVm == InitVm /\ [][NextVm]_vars

-----------------------------------------------------------------------------
(* jlox: Scanner::scan_tokens over every source of at most MaxChars chars  *)
(* of LoxChars, and a few longer ones.                                     *)

LoxChars ==
    {"1", ".", "-", "o", "r", "\"", "/", Newline, "=", "@", EAcute, Blank}

LoxSources ==
    SeqsUpTo(LoxChars, MaxChars)
        \cup {<<EAcute, "-", "1", "2">>, <<"1", "1", ".", "1", "1">>,
              <<"\"", "o", Newline, "\"", "1">>,
              <<"/", "/", "@", Newline, "o", "r">>}

\* Lox::new, and the state of the rest of the model while a front end runs
IdleBackEnd ==
    /\ session = <<>>
    /\ input = NoInput
    /\ dpc = "start"
    /\ phases = {}
    /\ statements = <<>>
    /\ had_error = FALSE
    /\ had_runtime_error = FALSE
    /\ exit_code = -1
    /\ InitInterpreter
    /\ IdleClox

\* Lox::run has made the Scanner of a source
InitScanner ==
    /\ mode = "scan"
    /\ IdleBackEnd
    /\ \E chars \in LoxSources : lox_scanner = LoxScanner(chars)
    /\ lox_parser = NoParser

NextScanner == ScanTokens \/ ScanTokensEnd

SpecScanner == InitScanner /\ [][NextScanner]_vars

-----------------------------------------------------------------------------
(* jlox: Parser::parse over token lists that end with Eof: every list of   *)
(* at most MaxTokens tokens of Vocabulary, and some programs.  A list is   *)
(* written as its lexemes; every token is on line 1.                       *)

\* the token the Scanner makes of a lexeme
Lex(word) ==
    CASE word \in DOMAIN KEYWORDS -> Token(KEYWORDS[word], word, 1)
      [] word \in DOMAIN SingleChars -> Token(SingleChars[word], word, 1)
      [] word \in DOMAIN Operators2 -> Token(Operators2[word][2], word, 1)
      [] word = "==" -> Token("EqualEqual", word, 1)
      [] word = "!=" -> Token("BangEqual", word, 1)
      [] word = "<=" -> Token("LessEqual", word, 1)
      [] word = ">=" -> Token("GreaterEqual", word, 1)
      [] word = "/" -> Token("Slash", word, 1)
      [] word = "1" -> LiteralToken("Number", word, LitNumber(1), 1)
      [] word = "2" -> LiteralToken("Number", word, LitNumber(2), 1)
      [] word = "\"s\"" -> LiteralToken("String", word, LitString("s"), 1)
      [] OTHER -> Token("Identifier", word, 1)

TokensOf(words) ==
    [i \in 1 .. Len(words) + 1 |->
        IF i <= Len(words) THEN Lex(words[i]) ELSE Token("Eof", "", 1)]

Vocabulary == {"print", "1", ";", "{", "}", "=", "x", "var"}

ParserPrograms ==
    { <<"{", "1", "1", "print", "2", ";">>,
      <<"{", "1", "1", "}", "print", "1", ";", "print", "2", ";">>,
      <<"{", "print", ";", "}", "print", "2", ";">>,
      <<"1", "=", "2", ";", "print", "1", ";">>,
      <<"x", "=", "y", "=", "1", ";">>,
      <<"print", "1", ";", "print", "2">>,
      <<"print", "(", "1", ";", "var", "x", ";">>,
      <<"fun", "f", "(", "a", ",", "b", ")", "{", "return", "a", "+", "b",
        ";", "}", "print", "f", "(", "1", ",", "2", ")", "(", ")", ";">>,
      <<"fun", "(", ")", ";", "return", ";">>,
      <<"fun", "f", "(", ")", "{", "print", ";", "}", "print", "2", ";">>,
      <<"for", "(", "var", "i", "=", "1", ";", "i", "<", "2", ";", "i", "=",
        "i", "+", "1", ")", "print", "i", ";">>,
      <<"for", "(", ";", ";", ")", "{", "}">>,
      <<"for", "(", "x", ";", "1", ")", "print", "1", ";">>,
      <<"if", "(", "x", "or", "!", "x", "and", "x", "==", "1", ")", "print",
        "1", ";", "else", "print", "\"s\"", ";">>,
      <<"while", "(", "-", "x", "*", "1", ">=", "(", "2", ")", ")", "x",
        "=", "x", "/", "2", ";">>,
      <<"while", "(", "1", "print", "1", ";", "class", "x", ";">>,
      <<"if", "1", ")", "{", "}", "var", "x", "=", "nil", ";">>,
      <<"print", "true", "!=", "false", ";", "f", "(", "1", ";">> }

ParserInputs == SeqsUpTo(Vocabulary, MaxTokens) \cup ParserPrograms

\* Lox::run has made the Parser of a token list
InitParser ==
    /\ mode = "parse"
    /\ IdleBackEnd
    /\ lox_scanner = NoScanner
    /\ \E words \in ParserInputs : lox_parser = LoxParser(TokensOf(words))

NextParser == ParseDeclaration \/ ParseEnd

SpecParser == InitParser /\ [][NextParser]_vars

-----------------------------------------------------------------------------
(* jlox: the Resolver's scopes under declare and define.  The calls to     *)
(* come are listed in to_resolve: begin_scope, end_scope, declare(x) alone *)
(* (the start of Stmt::Var) and declare(x) with define(x) (Stmt::Function, *)
(* the parameters of resolve_function).                                    *)

ScopeNames == {Ident("a", 1), Ident("b", 1)}

ScopeCalls ==
    {[op |-> "begin_scope"], [op |-> "end_scope"]}
        \cup {[op |-> "declare", name |-> x] : x \in ScopeNames}
        \cup {[op |-> "declare_define", name |-> x] : x \in ScopeNames}

\* the resolver of the running Resolver, as a record
ThisResolver ==
    [ResolverNew(locals, had_error, errout) EXCEPT
        !.scopes = scopes,
        !.current_function = current_function,
        !.resolved = resolved]

\* the next call is made on the resolver and gives r1
ScopeCall(op, r1) ==
    /\ mode = "scopes"
    /\ to_resolve # <<>>
    /\ Head(to_resolve).op = op
    /\ to_resolve' = Tail(to_resolve)
    /\ scopes' = r1.scopes
    /\ had_error' = r1.had_error
    /\ errout' = r1.errout
    /\ UNCHANGED <<mode, session, input, dpc, phases, statements,
                   had_runtime_error, exit_code, globals, locals,
                   current_function, resolved, heap, kont, ret, status, sig,
                   out, cloxVars, frontVars>>

BeginScope == ScopeCall("begin_scope", begin_scope(ThisResolver))

EndScope == ScopeCall("end_scope", end_scope(ThisResolver))

Declare ==
    ScopeCall("declare", declare(ThisResolver, Head(to_resolve).name))

\* self.declare(name); self.define(name);
DeclareDefine ==
    ScopeCall("declare_define",
              define_name(declare(ThisResolver, Head(to_resolve).name),
                          Head(to_resolve).name))

\* Resolver::new, with the calls to come
InitResolver(calls) ==
    /\ session = <<>>
    /\ input = NoInput
    /\ had_error = FALSE
    /\ had_runtime_error = FALSE
    /\ exit_code = -1
    /\ heap = <<ClockBuiltin>>
    /\ globals = <<("clock" :> 1)>>
    /\ locals = <<>>
    /\ scopes = <<>>
    /\ current_function = "None"
    /\ to_resolve \in calls
    /\ resolved = {}
    /\ kont = <<>>
    /\ ret = Fresh(Nil)
    /\ status = "run"
    /\ sig = NoSignal
    /\ out = <<>>
    /\ errout = <<>>
    /\ IdleFront
    /\ IdleClox

InitScopes ==
    /\ mode = "scopes"
    /\ dpc = "start"
    /\ phases = {}
    /\ statements = <<>>
    /\ InitResolver(SeqsUpTo(ScopeCalls, MaxCalls))

NextScopes == BeginScope \/ EndScope \/ Declare \/ DeclareDefine

SpecScopes == InitScopes /\ [][NextScopes]_vars

-----------------------------------------------------------------------------
(* jlox: Resolver::resolve over the statements Parser::parse returns for a *)
(* program, and a second Resolver run on the same statements with the      *)
(* interpreter's locals as the first run left them.                        *)

ResolverStatements ==
    { <<"return", ";">>,
      <<"{", "var", "a", ";", "a", ";", "}">>,
      <<"{", "var", "a", ";", "{", "a", ";", "}", "}">>,
      <<"{", "var", "a", "=", "a", ";", "}">>,
      <<"fun", "f", "(", "a", ")", "{", "return", "a", ";", "}">>,
      <<"var", "a", ";">>,
      <<"print", "a", ";">> }

ResolverPrograms ==
    { <<"{", "var", "a", "=", "a", ";", "var", "a", ";", "}", "return",
        ";">>,
      <<"fun", "f", "(", "a", ",", "a", ")", "{", "return", "a", ";", "}">>,
      <<"fun", "f", "(", "a", ")", "{", "fun", "g", "(", ")", "{", "return",
        "a", ";", "}", "return", "g", ";", "}", "return", "f", ";">>,
      <<"var", "a", ";", "{", "a", "=", "1", ";", "print", "a", ";", "}">>,
      <<"for", "(", "var", "i", "=", "1", ";", "i", "<", "2", ";", "i", "=",
        "i", "+", "1", ")", "{", "print", "i", ";", "}">>,
      <<"{", "var", "b", ";", "if", "(", "a", ")", "{", "var", "b", ";", "}",
        "else", "while", "(", "a", ")", "{", "b", ";", "}", "}">>,
      <<"{", "fun", "f", "(", ")", "{", "f", "(", "1", ",", "f", ")", ";",
        "}", "}">>,
      <<"{", "var", "a", ";", "{", "var", "b", "=", "a", ";", "{", "print",
        "-", "(", "a", "or", "!", "b", ")", ";", "}", "}", "}">> }

ResolverInputs ==
    ResolverPrograms \cup ResolverStatements
        \cup {s \o t : s \in ResolverStatements, t \in ResolverStatements}

\* a second Resolver is made and resolves the statements again
ResolveAgain ==
    /\ dpc = "resolve"
    /\ to_resolve = <<>>
    /\ "resolve" \notin phases
    /\ phases' = phases \cup {"resolve"}
    /\ LET r1 == resolve(ResolverNew(locals, had_error, errout), statements)
       IN  /\ scopes' = r1.scopes
           /\ current_function' = r1.current_function
           /\ locals' = r1.locals
           /\ resolved' = resolved \cup r1.resolved
           /\ had_error' = r1.had_error
           /\ errout' = r1.errout
    /\ UNCHANGED <<mode, session, input, dpc, statements, to_resolve,
                   had_runtime_error, exit_code, globals, heap, kont, ret,
                   status, sig, out, cloxVars, frontVars>>

InitResolving ==
    /\ mode = "resolver"
    /\ dpc = "resolve"
    /\ phases = {"scan", "parse"}
    /\ \E words \in ResolverInputs : statements = parse(TokensOf(words))
    /\ InitResolver({statements})

NextResolver == ResolveNext \/ ResolveAgain \/ ResolveEnd

SpecResolver == InitResolving /\ [][NextResolver]_vars

-----------------------------------------------------------------------------
(* The properties.                                                         *)

C2_LaterBindingFound ==
    (/\ AtEval("Variable")
     /\ Top.env # 0
     /\ Top.e.name.lexeme \in DOMAIN globals[1])
        => LookupVariable(EnvOf(globals, heap, Top.env), Top.e).ok

\* The depth the table holds for a node, as self.locals.get(&expr) finds it
HasDepth(e) == ExprKey(e) \in DOMAIN locals
DepthOf(e) == locals[ExprKey(e)]

\* The node a lookup or a store is being made for, and the slot it uses
AtNode == AtEval("Variable") \/ At("assign")
NodeEnv == EnvOf(globals, heap, Top.env)
NodeUse ==
    IF Top.k = "assign"
    THEN StoreAssign(NodeEnv, heap, Top.e, ValueOf(heap, ret))
    ELSE LookupVariable(NodeEnv, Top.e)

\* C3: the slot a Variable or Assign node reads or writes is, for a node with
\* a recorded depth d, the slot of its name in the frame d levels below the
\* top frame, and for a node without one the slot of its name in the global
\* frame.
C3_ResolvedDepthUsed ==
    (AtNode /\ NodeUse.ok) =>
        LET frame == IF HasDepth(Top.e)
                     THEN ancestor(NodeEnv, DepthOf(Top.e))
                     ELSE 1
        IN  /\ frame \in 1..Len(NodeEnv)
            /\ Top.e.name.lexeme \in DOMAIN NodeEnv[frame]
            /\ NodeUse.slot = NodeEnv[frame][Top.e.name.lexeme]

\* The input has a static error: the scanner, the parser or the resolver
\* reports one
StaticError(src) ==
    \/ src.scan_errors # <<>>
    \/ src.parse_errors # <<>>
    \/ resolve(ResolverNew(<<>>, FALSE, <<>>), src.stmts).had_error

\* C4: Lox::run starts to execute the statements of an input only after the
\* scanner, the parser and the resolver have finished on it and none of them
\* recorded an error; an input with a static error executes nothing and
\* leaves the environment as it was (for a file, the environment of
\* Interpreter::new).
C4_RunsAfterStaticPhases ==
    /\ dpc = "interpret" =>
           {"scan", "parse", "resolve"} \subseteq phases /\ ~had_error
    /\ (mode = "file" /\ StaticError(input)) =>
           /\ kont = <<>>
           /\ out = <<>>
           /\ globals = <<("clock" :> 1)>>
           /\ heap = <<ClockBuiltin>>

\* A statement of a function body is about to be executed: below it are the
\* loop of the body's block, the return of that block and the return of the
\* call.
AtBodyStatement ==
    /\ At("execute")
    /\ Len(kont) >= 4
    /\ kont[2].k = "block"
    /\ kont[4].k = "call_exit"

\* C5: when a node with recorded depth d is evaluated, the environment has
\* more than d frames and the frame d levels below the top holds the name;
\* and while the statements of a function body run, the closure has exactly
\* one frame more than it had when the call began.
C5_ScopesAligned ==
    /\ (AtNode /\ HasDepth(Top.e)) =>
           /\ Len(NodeEnv) > DepthOf(Top.e)
           /\ Top.e.name.lexeme
                  \in DOMAIN NodeEnv[ancestor(NodeEnv, DepthOf(Top.e))]
    /\ AtBodyStatement =>
           Len(EnvOf(globals, heap, kont[4].function)) = kont[4].frames + 1

\* C6: every occurrence the resolver resolved has its own entry in the depth
\* table: the table gives each resolved node the depth that was recorded for
\* that occurrence, whatever was resolved after it.
C6_OneEntryPerOccurrence ==
    \A p \in resolved : HasDepth(p[1]) /\ DepthOf(p[1]) = p[2]

\* A return statement that no function call encloses is being executed
InCall == \E i \in 1..Len(kont) : kont[i].k = "call_exit"

\* C7: a Return signal never reaches Lox::interpret, which would hand it to
\* Lox::runtime_error, and a return statement outside every function body is
\* never executed.
C7_ReturnStaysInCall ==
    /\ ~(status = "err" /\ kont = <<>> /\ sig.kind = "Return")
    /\ ~(AtExec("Return") /\ ~InCall)

\* Every environment: the driver's and the closure of every function value
Environments ==
    {globals} \cup {heap[s].closure : s \in {x \in DOMAIN heap :
                                                heap[x].k = "Function"}}

C9_AssignOneSlot ==
    [][At("assign") =>
        LET env == NodeEnv
            lexeme == Top.e.name.lexeme
            i == FindFrame(env, lexeme, Len(env))
        IN  IF i # 0
            THEN /\ status' = "run"
                 /\ heap' = [heap EXCEPT ![env[i][lexeme]] = ValueOf(heap, ret)]
                 /\ globals' = globals
                 /\ ret' = InSlot(env[i][lexeme])
            ELSE /\ status' = "err"
                 /\ sig'.kind = "Error"
                 /\ sig'.message = "Undefined variable '" \o lexeme \o "'."
                 /\ heap' = heap
                 /\ globals' = globals]_vars

\* C10: a call with a number of arguments other than the arity of the
\* function or builtin returns the error "Expected N arguments but got M."
\* with no frame pushed, no parameter defined and nothing printed; a call
\* with as many arguments as the arity runs the body (of a function: its
\* block against the closure with the parameter frame; of clock: a number).
C10_ArityChecked ==
    [][(AtCallee /\ IsCallable(Callee)) =>
        IF Len(Top.args) # Len(Callee.params)
        THEN /\ status' = "err"
             /\ sig' = [kind |-> "Error",
                        message |-> "Expected " \o NatText(Len(Callee.params))
                                        \o " arguments but got "
                                        \o NatText(Len(Top.args)) \o ".",
                        line |-> Top.e.paren.line]
             /\ kont' = Rest
             /\ heap' = heap
             /\ globals' = globals
             /\ out' = out
        ELSE /\ status' = "run"
             /\ IF Callee.k = "Function"
                THEN /\ kont'[1] = Exec(Block(Callee.body), Top.function.slot)
                     /\ Len(heap') = Len(heap) + Len(Callee.params)
                ELSE ret'.v.k = "Number" /\ kont' = Rest]_vars

\* A call with two arguments of a function of one parameter has failed
C10_TooManyArguments ==
    /\ status = "err"
    /\ sig.kind = "Error"
    /\ sig.message = "Expected 1 arguments but got 2."
    /\ globals = <<("clock" :> 1) @@ ("f" :> 2)>>
    /\ out = <<>>

\* C11: when the left operand of a Logical expression has been evaluated,
\* an `or` with a truthy left value and an `and` with a falsey left value
\* return at once, with the left value itself as the result and no slot
\* changed; in every other case the right operand is evaluated next and its
\* value is the result.  So `print 1 or (a = 5); print nil and (a = 6);
\* print a;` after `var a = 0;` only ever prints 1, nil, 0.
C11_ShortCircuit ==
    [][At("logical") =>
        LET left == ValueOf(heap, ret)
            falsey == left.k = "Nil" \/ (left.k = "Boolean" /\ ~left.b)
            skip == IF Top.e.operator.typ = "Or" THEN ~falsey ELSE falsey
        IN  /\ status' = "run"
            /\ heap' = heap
            /\ globals' = globals
            /\ out' = out
            /\ ret' = ret
            /\ IF skip
               THEN kont' = Rest
               ELSE kont' = <<Eval(Top.e.right, Top.env)>> \o Rest
            /\ input = ShortCircuitProgram =>
                   /\ out \in {<<>>, <<"1">>}
                   /\ heap[globals[1]["a"]] = Number(0)
    ]_vars

C11_RightSkipped ==
    /\ input = ShortCircuitProgram
    /\ out = <<"1", "nil", "0">>

\* C12: once the driver has reported a runtime error of the file it runs, no
\* statement of that file is executed any more.
C12_ErrorEndsInput ==
    (mode = "file" /\ had_runtime_error) => kont = <<>>

\* The line Lox::run is working on scans and parses without an error
WellFormed(src) == src.scan_errors = <<>> /\ src.parse_errors = <<>>

\* C13: at the prompt had_error is false when a line is read and when
\* Lox::run starts on it, so a well-formed line reaches Lox::interpret
\* whatever the lines before it were; and the steps of the driver between
\* the end of one line's statements and the first statement of the next
\* change no frame and no slot of the environment.
C13_PromptLinesIndependent ==
    /\ [](mode = "prompt" =>
            /\ dpc \in {"start", "run"} => ~had_error
            /\ (dpc = "parsed" /\ WellFormed(input)) => ~had_error)
    /\ [][(mode = "prompt" /\ dpc # "interpret") =>
            globals' = globals /\ heap' = heap]_vars

\* var a = 1; and print a; were entered with a line that does not parse
\* before the print, and the print printed 1
C13_LineAfterError ==
    /\ mode = "prompt"
    /\ dpc = "ran"
    /\ session = <<>>
    /\ input = Prog(<<StmtPrint(V("a", 1))>>)
    /\ errout # <<>>
    /\ ~had_runtime_error
    /\ out = <<"1">>

\* C14: every value is equal to itself under the equality of `==` and `!=`
\* (the numbers of the model are never NaN), and two values of different
\* kinds are not equal; checked for the values of all slots.
C14_EqualityReflexive ==
    /\ \A s \in DOMAIN heap : ValueEq(heap, heap[s], heap[s])
    /\ \A s, t \in DOMAIN heap :
           heap[s].k # heap[t].k => ~ValueEq(heap, heap[s], heap[t])

\* C15: in every chunk written by write_chunk and add_constant from
\* Chunk::new the code and the lines have the same length; a write_chunk
\* makes each of them one longer and an add_constant changes neither.
C15_CodeAndLines ==
    /\ Len(chunk.code) = Len(chunk.lines)
    /\ \A byte \in {OpCode.Constant, OpCode.Return, U8 - 1}, line \in {1, 2} :
          LET w == write_chunk(chunk, byte, line)
          IN  /\ w.code = Append(chunk.code, byte)
              /\ w.lines = Append(chunk.lines, line)
              /\ w.constants = chunk.constants
    /\ \A value \in {Nil, Number(1)} :
          LET k == add_constant(chunk, value, overflow_checks).chunk
          IN  k.code = chunk.code /\ k.lines = chunk.lines

\* a compiled chunk: written six times, with two constants added
C15_ChunkWritten ==
    /\ vpc = "run"
    /\ Len(chunk.code) = 6
    /\ Len(chunk.lines) = 6
    /\ Len(chunk.constants) = 2

\* C16: when the compiler compiles a number literal that is the k-th
\* constant of the chunk, then for k up to 256 it goes on without a fault,
\* the literal's value is constants[k - 1] and the bytes emitted are Constant
\* and k - 1; for k = 257 nothing is emitted and a compile error is recorded.
C16_ConstantIndex ==
    [][(Compiling("prefix") /\ PrefixRule = "number") =>
        LET k == Len(chunk.constants) + 1
        IN  IF k <= U8
            THEN /\ vpc' = "compile"
                 /\ chunk'.constants =
                        Append(chunk.constants, Number(NumberOf(source, parser.previous)))
                 /\ chunk'.code = chunk.code \o <<OpCode.Constant, k - 1>>
                 /\ chunk'.constants[chunk'.code[Len(chunk'.code)] + 1]
                        = Number(NumberOf(source, parser.previous))
            ELSE /\ vpc' = "compile"
                 /\ chunk'.code = chunk.code
                 /\ parser'.had_error]_vars

\* the instruction at ip pushes without popping
AtPush ==
    /\ InCode
    /\ instruction \in {OpCode.Constant, OpCode.Nil, OpCode.True, OpCode.False}

AtTypeError ==
    /\ VmRunning
    /\ InCode
    /\ \/ /\ instruction \in BinaryOps
          /\ stack_top >= 2
          /\ ~is_number(peek(0)) \/ ~is_number(peek(1))
       \/ /\ instruction = OpCode.Negate
          /\ stack_top >= 1
          /\ ~is_number(peek(0))

\* C18: an arithmetic or comparison instruction with a non-number among the
\* two top values, or Negate with a non-number on top, makes run return
\* RuntimeError with the stack top index 0; no value is pushed or printed,
\* and after the return no instruction is executed.
C18_TypeErrorResetsStack ==
    /\ [][AtTypeError => /\ result' = "RuntimeError"
                         /\ vpc' = "idle"
                         /\ stack_top' = 0
                         /\ stack' = stack
                         /\ vout' = vout]_vars
    /\ [][result = "RuntimeError" =>
            UNCHANGED <<ip, stack, stack_top, vout>>]_vars

\* Greater, Less, Add, Subtract, Multiply or Divide met Nil or a Bool with
\* three values on the stack
C18_TypeErrorReturned ==
    /\ result = "RuntimeError"
    /\ vpc = "idle"
    /\ stack_top = 0
    /\ chunk.code[ip] \in BinaryOps
    /\ stack[0] = Number(9)
    /\ ~is_number(stack[1]) \/ ~is_number(stack[2])

\* C19: while a source is compiled nothing is pushed, popped or printed; a
\* compile that has recorded an error never goes on to run: at its end
\* interpret returns CompileError with ip, the stack and the output as they
\* were.
C19_CompileErrorNeverRuns ==
    [][/\ vpc = "compile" => UNCHANGED <<stack, stack_top, vout>>
       /\ (vpc = "compile" /\ parser.had_error) => vpc' # "run"
       /\ (Compiling("end") /\ parser.had_error) =>
             /\ result' = "CompileError"
             /\ vpc' = "idle"
             /\ ip' = ip]_vars

\* the second line of a session failed to compile after the first line had
\* run and printed its value
C19_FailedAfterRun ==
    /\ vm_session = <<>>
    /\ result = "CompileError"
    /\ vpc = "idle"
    /\ parser.had_error
    /\ vout = <<"3">>
    /\ stack_top = 0

\* C20: during one compile, once panic_mode is set no step reports anything
\* or clears a flag, and had_error, once set, stays set; at the end compile
\* returns CompileError exactly when had_error is set; the next compile
\* starts with both flags cleared, and a well-formed source compiles without
\* an error whatever was compiled before it.
C20_PanicModeSuppresses ==
    [][/\ (vpc = "compile" /\ parser.panic_mode) =>
             /\ verr' = verr
             /\ parser'.panic_mode
             /\ parser'.had_error
       /\ (vpc = "compile" /\ parser.had_error) => parser'.had_error
       /\ Compiling("end") =>
             /\ (result' = "CompileError") <=> parser.had_error
             /\ (vpc' = "run") <=> ~parser.had_error
             /\ source \in WellFormedSources => ~parser.had_error
       /\ (vpc = "idle" /\ vpc' = "compile") =>
             ~parser'.had_error /\ ~parser'.panic_mode]_vars

\* a line with two errors reported one of them, and the well-formed line
\* after it compiled and ran
C20_LaterSourceCompiles ==
    /\ vm_session = <<>>
    /\ source \in WellFormedSources
    /\ result = "Ok"
    /\ verr = <<"[line 1] Error at 'Expect expression.'">>
    /\ vout # <<>>

\* C21: when interpret has returned for the source of an arithmetic tree
\* (number literals, binary + - * /, unary minus, parentheses), it has
\* returned Ok and printed the value of the tree; the text of a tree has
\* parentheses only where an operand binds more loosely than its operator,
\* or equally on the right: 1+2*3 gives 7 and 1-2-3 gives -4.
C21_CompiledValue ==
    ("tree" \in DOMAIN source) =>
        /\ vpc # "panic"
        /\ (vpc = "idle" /\ result # "None") =>
              /\ result = "Ok"
              /\ vout = <<IntText(TreeValue(source.tree))>>

\* 1-2-3 was compiled and run
C21_LeftAssociative ==
    /\ source = TreeSource(EBin(Minus, EBin(Minus, ELit(1), ELit(2)), ELit(3)))
    /\ source.chars = <<"1", "-", "2", "-", "3">>
    /\ result = "Ok"
    /\ vout = <<"-4">>

\* C22: a turn of the loop of scan_tokens does not fault and consumes at
\* least one char, and when scan_tokens returns the last token of its list,
\* and no other, is Eof: whatever the source, unrecognized chars and
\* unterminated strings included.
C22_ScanTerminates ==
    [][lox_scanner.pc = "scan" =>
        /\ lox_scanner'.pc # "panic"
        /\ lox_scanner'.pc = "scan" =>
              lox_scanner'.current > lox_scanner.current
        /\ lox_scanner'.pc = "done" =>
              LET tokens == lox_scanner'.tokens
              IN  /\ tokens # <<>>
                  /\ \A i \in DOMAIN tokens :
                        tokens[i].typ = "Eof" <=> i = Len(tokens)]_vars

\* C23: a call of the bytecode scanner's scan_token reads no char at or
\* past the end of the source, whatever the source: it does not stop with
\* an index out of bounds, it returns Eof when only blanks and comments are
\* left, and a '.' that no digit follows is a Dot token of its own.
C23_ScanInBounds ==
    [][Compiling("scan") =>
        /\ ~(vpc' = "panic" /\ result' = IndexPanic)
        /\ vpc' = "compile" =>
              LET tok == parser'.current
              IN  /\ (scanner'.start = SourceLen(source)) => tok.typ = "Eof"
                  /\ (tok.typ # "Error" /\ tok.length > 0
                      /\ CharAt(source, tok.start) = ".") =>
                        (tok.typ = "Dot" /\ tok.length = 1)]_vars

\* C24: a token the bytecode scanner makes of a lexeme that starts with a
\* letter or '_' has the type of the keyword the whole lexeme spells, and
\* Identifier when it spells none of the sixteen.
C24_KeywordTypes ==
    [][(Compiling("scan") /\ vpc' = "compile") =>
        LET tok == parser'.current
            text == TextOf(source, tok.start, tok.start + tok.length)
        IN  (tok.typ # "Error" /\ tok.length > 0
             /\ is_alpha(CharAt(source, tok.start))) =>
                tok.typ = IF text \in DOMAIN KEYWORDS THEN KEYWORDS[text]
                          ELSE "Identifier"]_vars

\* C25: when scan_token returns an Error token (an unexpected character,
\* an unterminated string), Vm::advance handles it without a fault, the
\* text of the token taken with get_token included, whatever the length of
\* the source: the compile goes on with an error recorded, and interpret
\* returns CompileError.
C25_ErrorTokenHandled ==
    [][Compiling("scan") =>
        LET scanned == scan_token(source, scanner)
        IN  (~scanned.panic /\ scanned.token.typ = "Error") =>
                /\ vpc' = "compile"
                /\ parser'.had_error]_vars

\* C26: a turn of the loop of Parser::parse consumes at least one token;
\* each error it reports is followed by one call of synchronize, which
\* consumes at least one token (unless the error is at Eof) and stops just
\* after a ';', just before a keyword that starts a statement, or at Eof;
\* a turn that reports an error adds no statement to the list; and when
\* parse returns, the well-formed statement that starts where a synchronize
\* stopped, if there is one, is in the list.
C26_ParseRecovers ==
    [][/\ (lox_parser.pc = "parse" /\ lox_parser'.pc = "parse") =>
            LET reported == Len(errout') - Len(errout)
                before == Len(lox_parser.syncs)
                syncs == SubSeq(lox_parser'.syncs, before + 1,
                                Len(lox_parser'.syncs))
                tokens == lox_parser.tokens
            IN  /\ lox_parser'.current > lox_parser.current
                /\ Len(syncs) = reported
                /\ \A i \in DOMAIN syncs :
                      /\ \/ syncs[i].to > syncs[i].from
                         \/ tokens[syncs[i].from + 1].typ = "Eof"
                      /\ \/ tokens[syncs[i].to + 1].typ \in
                               {"Eof", "Class", "For", "Fun", "If", "Print",
                                "Return", "Var", "While"}
                         \/ tokens[syncs[i].to].typ = "Semicolon"
                /\ reported > 0 =>
                      lox_parser'.statements = lox_parser.statements
       /\ (lox_parser.pc = "parse" /\ lox_parser'.pc = "done") =>
            \A i \in DOMAIN lox_parser.syncs :
                LET d == declaration(
                             [LoxParser(lox_parser.tokens) EXCEPT
                                 !.current = lox_parser.syncs[i].to])
                IN  (d.ok /\ d.p.errors = <<>>) =>
                        \E j \in DOMAIN lox_parser.statements :
                            lox_parser.statements[j] = d.node]_vars

\* C27: declare(x) followed by define(x), with a scope open, leaves x
\* mapped to true in the innermost scope, the other names of that scope as
\* they were and every enclosing scope unchanged, whether or not one of them
\* holds x; with no scope open the two calls change nothing.
C27_DeclareThenDefine ==
    [][(mode = "scopes" /\ to_resolve # <<>>
        /\ Head(to_resolve).op = "declare_define") =>
        LET x == Head(to_resolve).name.lexeme
            top == Len(scopes)
        IN  IF scopes = <<>>
            THEN UNCHANGED <<scopes, locals, had_error, errout>>
            ELSE /\ Len(scopes') = top
                 /\ DOMAIN scopes'[top] = DOMAIN scopes[top] \cup {x}
                 /\ scopes'[top][x] = TRUE
                 /\ \A y \in DOMAIN scopes[top] \ {x} :
                       scopes'[top][y] = scopes[top][y]
                 /\ \A i \in 1 .. top - 1 : scopes'[i] = scopes[i]]_vars

\* a was declared and defined in a scope whose enclosing scope holds a
\* declared and not yet defined
C27_InnerDefined ==
    /\ mode = "scopes"
    /\ Len(scopes) = 2
    /\ scopes[1] = ("a" :> FALSE)
    /\ scopes[2] = ("a" :> TRUE)

C29_ResolverUnwinds ==
    [][mode = "resolver" =>
        /\ scopes' = <<>>
        /\ current_function' = "None"
        /\ (dpc = "resolve" /\ to_resolve # <<>>) =>
               to_resolve' = Tail(to_resolve)]_vars

\* the resolver ended after it reported a read in an own initializer, a
\* duplicate declaration and a top-level return
C29_ErrorsReported ==
    /\ mode = "resolver" /\ to_resolve = <<>> /\ had_error
    /\ scopes = <<>> /\ current_function = "None"
    /\ Len(errout) >= 3

\* C30: whenever Vm::interpret has returned, with Ok, CompileError or
\* RuntimeError, stack_top is 0; run returns Ok from a Return that finds
\* exactly one value on the stack and pops it.
C30_StackEmptyOnReturn ==
    [][/\ vpc' = "idle" => stack_top' = 0
       /\ (vpc = "run" /\ result' = "Ok") =>
              /\ instruction = OpCode.Return
              /\ stack_top = 1]_vars

\* the second line of a session has returned Ok after the first did, the
\* first with a binary expression
C30_TwoLinesReturned ==
    /\ vpc = "idle" /\ result = "Ok" /\ vm_session = <<>>
    /\ Len(vout) = 2 /\ stack_top = 0
    /\ \E i \in DOMAIN chunk.code : chunk.code[i] \in BinaryOps

====
